---- MODULE Spec2Model ----
(***************************************************************************)
(* grepros search core: Searcher.search and its bookkeeping (search.py),   *)
(* the condition evaluator ConditionMixin (inputs.py) and the matcher      *)
(* Searcher.get_match (search.py), as state machines.                      *)
(***************************************************************************)
EXTENDS Integers, Sequences, FiniteSets, TLC

\* ------------------------------------------------------------------ bounds
MaxMsgs   == 5    \* records read from the source in one batch
MaxBefore == 2    \* largest args.BEFORE tried
MaxAfter  == 3    \* largest args.AFTER tried
MaxQuota  == 2    \* largest MAX_MATCHES / MAX_TOPIC_MATCHES / MAX_TOPICS tried
MaxNth    == 2    \* largest args.NTH_MATCH tried
MaxTotal  == 2    \* largest per-channel message total of a bag

\* (topic, typename, typehash) keys of the records the source yields
Channels == {"c1", "c2"}

\* source.topics value of a channel whose total is not known (None)
NoCount == -1

VARIABLES
    args,           \* Searcher.args
    counts,         \* Searcher._counts:   {topickey: {None: n, True: n, False: n}}
    messages,       \* Searcher._messages: {topickey: <<msgid, msg>>, ..}
    stamps,         \* Searcher._stamps:   {topickey: <<msgid, stamp>>, ..}
    statuses,       \* Searcher._statuses: {topickey: <<msgid, status>>, ..}
    counter,        \* search(): counter, the last message id
    batch,          \* search(): batch
    total_matched,  \* search(): total_matched
    batch_matched,  \* search(): batch_matched
    topics,         \* source.topics: {topickey: total count or None}
    srcBatch,       \* source.get_batch()
    srcOpen,        \* source still yields records (close_batch not called)
    emitted,        \* every sink.emit call, in order
    matchlog,       \* per channel and record read: the verdict `matched`, and
                    \* hit: source.is_processable and get_match both accept it
    typemeta        \* rosapi.TypeMeta._CACHE entries not yet discarded or
                    \* cleared, as <<batch, topickey, record number>>

searchVars == <<args, counts, messages, stamps, statuses, counter, batch,
                total_matched, batch_matched, topics, srcBatch, srcOpen,
                emitted, matchlog, typemeta>>

VARIABLES
    conditions,            \* args.CONDITIONS as parsed into ConditionMixin._conditions
    topics_per_condition,  \* ConditionMixin._topics_per_condition
    topic_states,          \* ConditionMixin._topic_states
    topic_limits,          \* ConditionMixin._topic_limits
    lastmsgs,              \* ConditionMixin._lastmsgs, in insertion order of its keys
    firstmsgs,             \* ConditionMixin._firstmsgs
    src_counts,            \* source._counts: {topickey: records read}
    gate,                  \* outcome of is_processable for the last record read
    errors,                \* number of ConsolePrinter.error calls of is_processable
    evtrace,               \* every eval() of the last is_processable call, in order
    signalled,             \* some eval() so far raised NoMessageException
    history,               \* every record conditions_register_message was given, by channel
    selected               \* the channels args.TOPICS, TYPES and SKIP_* select (filter_dict)

condVars == <<conditions, topics_per_condition, topic_states, topic_limits,
              lastmsgs, firstmsgs, src_counts, gate, errors, evtrace, signalled,
              history, selected>>

VARIABLES
    margs,        \* Searcher.args as used by get_match, and sink.is_highlighting()
    passthrough,  \* Searcher._passthrough
    given,        \* the record last handed to get_match
    returned,     \* what get_match returned for it: itself, a copy or None
    calls,        \* number of get_match calls so far
    result,       \* the value get_match returned
    original,     \* the record handed to get_match, as the call left it
    walked        \* the last call ran process_message

matchVars == <<margs, passthrough, given, returned, calls, result, original, walked>>

VARIABLES
    hname,    \* typename given to calculate_definition_hash
    hdef,     \* msgdef given to it, as its lines
    hdigest,  \* the digest the last call returned
    hbase,    \* the digest the first call returned
    hcalls,   \* number of calculate_definition_hash calls so far
    hfresh,   \* the definition text is the one the last call was given
    hstr      \* the text after "#" in a string constant declaration was changed

hashVars == <<hname, hdef, hdigest, hbase, hcalls, hfresh, hstr>>

VARIABLES
    running,   \* TopicSource._running
    queue,     \* contents of the queue.Queue made by read()
    queueRef,  \* TopicSource._queue is that Queue (TRUE) or None (FALSE)
    subs,      \* keys of TopicSource._subs
    ltopics,   \* keys of TopicSource.topics
    avail,     \* topics rosapi.get_topic_types() lists
    rpc,       \* where the consumer thread is in the generator read()
    cpc,       \* where a close() call is
    closer,    \* the thread that runs close()
    opc,       \* where a subscription callback _on_message is
    fpc,       \* where the thread of _run_refresh is
    sent,      \* number of _on_message callbacks so far
    yielded,   \* records read() has yielded, in order
    stopped,   \* close() has set _running to False
    late,      \* read() yielded a record after close() had set the stop flag
    wrote      \* <<thread, attribute>>: the attributes of the source a thread wrote

liveVars == <<running, queue, queueRef, subs, ltopics, avail, rpc, cpc, closer, opc, fpc,
              sent, yielded, stopped, late, wrote>>

VARIABLES
    clock,       \* time.time(), in whole ticks
    registry,    \* rosapi.TypeMeta: _CACHE (message id -> topic), _TIMINGS, _LASTSWEEP
    sqlMsgs,     \* the records the search has read: message id -> [topic, type]
    sqlSink,     \* SqlSink: _types, _topics, the entities in its file, file state
    sqlEmitted,  \* ids of the records given to SqlSink.emit so far
    metaWindow   \* Searcher._messages of the run whose registry is followed:
                 \* per channel, the ids of the records held

sqlVars == <<clock, registry, sqlMsgs, sqlSink, sqlEmitted, metaWindow>>

\* the state outside Searcher, ConditionMixin and get_match
auxVars == <<hashVars, liveVars, sqlVars>>

vars == <<searchVars, condVars, matchVars, auxVars>>

\* real channel names of the condition runs, and the `<topic x>` names used
CondTopics == {"a/ctrl", "b/ctrl", "speed", "out"}

\* the empty dict
EmptyMap == [x \in {} |-> 0]

\* ConditionMixin of a run without the conditions under study
CondIdle ==
    /\ conditions = <<>> /\ topics_per_condition = <<>>
    /\ topic_states = EmptyMap /\ topic_limits = EmptyMap
    /\ lastmsgs = <<>> /\ firstmsgs = EmptyMap
    /\ src_counts = [t \in CondTopics |-> 0]
    /\ gate = "none" /\ errors = 0 /\ evtrace = <<>> /\ signalled = FALSE
    /\ history = [t \in CondTopics |-> <<>>]
    /\ selected = CondTopics

\* get_match of a run that does not call it
MatchIdle ==
    /\ margs = EmptyMap /\ passthrough = FALSE
    /\ given = EmptyMap /\ returned = "none" /\ calls = 0
    /\ result = EmptyMap /\ original = EmptyMap /\ walked = FALSE

\* calculate_definition_hash of a run that does not call it
HashIdle ==
    /\ hname = "" /\ hdef = <<>> /\ hdigest = "" /\ hbase = ""
    /\ hcalls = 0 /\ hfresh = FALSE /\ hstr = FALSE

\* a TopicSource that is not read
LiveIdle ==
    /\ running = FALSE /\ queue = <<>> /\ queueRef = FALSE
    /\ subs = {} /\ ltopics = {} /\ avail = {}
    /\ rpc = "start" /\ cpc = "idle" /\ closer = "none" /\ opc = "idle" /\ fpc = "off"
    /\ sent = 0 /\ yielded = <<>> /\ stopped = FALSE /\ late = FALSE /\ wrote = {}

\* a run without SqlSink
SqlIdle ==
    /\ clock = 0
    /\ registry = [cache |-> EmptyMap, children |-> EmptyMap, timings |-> EmptyMap,
                   lastsweep |-> 0]
    /\ sqlMsgs = <<>>
    /\ sqlSink = [types |-> {}, topics |-> EmptyMap, file |-> <<>>, state |-> "init"]
    /\ sqlEmitted = {}
    /\ metaWindow = EmptyMap

AuxIdle == HashIdle /\ LiveIdle /\ SqlIdle

\* ------------------------------------------------------------ dict helpers
Max(a, b) == IF a >= b THEN a ELSE b

ZeroCounter == [None |-> 0, True |-> 0, False |-> 0]

\* collections.Counter lookup: a missing key counts as zero
Cnt(cs, k, f) == IF k \in DOMAIN cs THEN cs[k][f] ELSE 0

Inc(cs, k, f) ==
    LET cur == IF k \in DOMAIN cs THEN cs[k] ELSE ZeroCounter
    IN  (k :> [cur EXCEPT ![f] = @ + 1]) @@ cs

RECURSIVE SumTrueOver(_, _)
SumTrueOver(cs, S) ==
    IF S = {} THEN 0
    ELSE LET k == CHOOSE x \in S : TRUE
         IN  cs[k]["True"] + SumTrueOver(cs, S \ {k})

\* sum(x[True] for x in self._counts.values())
SumTrue(cs) == SumTrueOver(cs, DOMAIN cs)

\* defaultdict(OrderedDict) lookup
Win(d, k) == IF k \in DOMAIN d THEN d[k] ELSE <<>>

\* dct[topickey][msgid] = value, for a new msgid (appended) or a known one (in place)
Put(d, k, id, v) ==
    LET w == Win(d, k)
        known == \E i \in 1..Len(w) : w[i][1] = id
    IN  (k :> IF known
              THEN [i \in 1..Len(w) |-> IF w[i][1] = id THEN <<id, v>> ELSE w[i]]
              ELSE Append(w, <<id, v>>)) @@ d

Get(d, k, id) ==
    LET w == Win(d, k)
    IN  w[CHOOSE i \in 1..Len(w) : w[i][1] = id][2]

\* Python seq[-n:]  (seq[-0:] is the whole sequence)
PyTail(s, n) ==
    IF n = 0 \/ n >= Len(s) THEN s ELSE SubSeq(s, Len(s) - n + 1, Len(s))

\* ------------------------------------------------------- Searcher methods
\* _is_processable with the MAX_MATCHES comparison off by one
IsProcessable_lateTotal(cs, k, srcOk) ==
    /\ ~(args.MAX_MATCHES # 0 /\ SumTrue(cs) > args.MAX_MATCHES)
    /\ ~(args.MAX_TOPIC_MATCHES # 0 /\ Cnt(cs, k, "True") >= args.MAX_TOPIC_MATCHES)
    /\ ~(/\ args.MAX_TOPICS # 0
         /\ LET topics_matched == {x \in DOMAIN cs : cs[x]["True"] # 0}
            IN  k \notin topics_matched
                /\ Cardinality(topics_matched) >= args.MAX_TOPICS)
    /\ srcOk

\* _is_processable with the MAX_TOPIC_MATCHES comparison off by one
IsProcessable_lateTopic(cs, k, srcOk) ==
    /\ ~(args.MAX_MATCHES # 0 /\ SumTrue(cs) >= args.MAX_MATCHES)
    /\ ~(args.MAX_TOPIC_MATCHES # 0 /\ Cnt(cs, k, "True") > args.MAX_TOPIC_MATCHES)
    /\ ~(/\ args.MAX_TOPICS # 0
         /\ LET topics_matched == {x \in DOMAIN cs : cs[x]["True"] # 0}
            IN  k \notin topics_matched
                /\ Cardinality(topics_matched) >= args.MAX_TOPICS)
    /\ srcOk

\* _is_processable with the MAX_TOPICS comparison off by one
IsProcessable_lateTopics(cs, k, srcOk) ==
    /\ ~(args.MAX_MATCHES # 0 /\ SumTrue(cs) >= args.MAX_MATCHES)
    /\ ~(args.MAX_TOPIC_MATCHES # 0 /\ Cnt(cs, k, "True") >= args.MAX_TOPIC_MATCHES)
    /\ ~(/\ args.MAX_TOPICS # 0
         /\ LET topics_matched == {x \in DOMAIN cs : cs[x]["True"] # 0}
            IN  k \notin topics_matched
                /\ Cardinality(topics_matched) > args.MAX_TOPICS)
    /\ srcOk

\* Searcher._is_processable; srcOk is what source.is_processable returns
IsProcessable(cs, k, srcOk) ==
    /\ ~(args.MAX_MATCHES # 0 /\ SumTrue(cs) >= args.MAX_MATCHES)
    /\ ~(args.MAX_TOPIC_MATCHES # 0 /\ Cnt(cs, k, "True") >= args.MAX_TOPIC_MATCHES)
    /\ ~(/\ args.MAX_TOPICS # 0
         /\ LET topics_matched == {x \in DOMAIN cs : cs[x]["True"] # 0}
            IN  k \notin topics_matched
                /\ Cardinality(topics_matched) >= args.MAX_TOPICS)
    /\ srcOk

\* the Nth taken as the last of every NTH_MATCH matches, not the first
IsNth_last(cs, k) ==
    LET nth == IF args.NTH_MATCH # 0 THEN args.NTH_MATCH ELSE 1
    IN  (Cnt(cs, k, "True") + 1) % nth = 0

\* every match taken for the Nth
IsNth_always(cs, k) == TRUE

\* search(): not self._counts[topickey][True] % (self.args.NTH_MATCH or 1)
IsNth(cs, k) ==
    LET nth == IF args.NTH_MATCH # 0 THEN args.NTH_MATCH ELSE 1
    IN  Cnt(cs, k, "True") % nth = 0

\* Searcher._has_in_window
HasInWindow(st, k, length, status, full) ==
    IF length = 0 \/ (full /\ Len(Win(st, k)) < length) THEN FALSE
    ELSE LET tail == PyTail(Win(st, k), length)
         IN  \E i \in 1..Len(tail) : tail[i][2] = status

\* _emit_context that takes every candidate, whatever its status
EmitContext_all(st, cs, ms, k, before) ==
    LET count == IF before THEN args.BEFORE + 1 ELSE args.AFTER
        candidates == PyTail(Win(st, k), count)
        current_index == Cnt(cs, k, "None")
        n == IF count = 0 THEN 0 ELSE Len(candidates)
        picked == [i \in 1..n |-> i]
        ids == {candidates[picked[j]][1] : j \in 1..Len(picked)}
        w == Win(st, k)
    IN  [statuses |-> IF n = 0 THEN st
                      ELSE (k :> [j \in 1..Len(w) |->
                                    IF w[j][1] \in ids THEN <<w[j][1], "False">>
                                    ELSE w[j]]) @@ st,
         counts   |-> IF Len(picked) = 0 THEN cs
                      ELSE (k :> [cs[k] EXCEPT !["False"] = @ + Len(picked)]) @@ cs,
         calls    |-> [j \in 1..Len(picked) |->
                        [topic |-> k,
                         index |-> current_index + (picked[j] - 1)
                                   - (IF before THEN Len(candidates) - 1 ELSE 1),
                         msg   |-> Get(ms, k, candidates[picked[j]][1]),
                         match |-> FALSE]]]

\* Searcher._emit_context: the statuses and counts it leaves and the sink.emit
\* calls it makes, in order
EmitContext(st, cs, ms, k, before) ==
    LET count == IF before THEN args.BEFORE + 1 ELSE args.AFTER
        candidates == PyTail(Win(st, k), count)
        current_index == Cnt(cs, k, "None")
        n == IF count = 0 THEN 0 ELSE Len(candidates)
        picked == SelectSeq([i \in 1..n |-> i], LAMBDA i : candidates[i][2] = "None")
        ids == {candidates[picked[j]][1] : j \in 1..Len(picked)}
        w == Win(st, k)
    IN  [statuses |-> IF n = 0 THEN st
                      ELSE (k :> [j \in 1..Len(w) |->
                                    IF w[j][1] \in ids THEN <<w[j][1], "False">>
                                    ELSE w[j]]) @@ st,
         counts   |-> IF Len(picked) = 0 THEN cs
                      ELSE (k :> [cs[k] EXCEPT !["False"] = @ + Len(picked)]) @@ cs,
         calls    |-> [j \in 1..Len(picked) |->
                        [topic |-> k,
                         index |-> current_index + (picked[j] - 1)
                                   - (IF before THEN Len(candidates) - 1 ELSE 1),
                         msg   |-> Get(ms, k, candidates[picked[j]][1]),
                         match |-> FALSE]]]

\* _prune_data that lets the window grow one entry beyond WINDOW
Prune_late(d, k) ==
    LET WINDOW == Max(args.BEFORE, args.AFTER) + 2
        w == Win(d, k)
    IN  IF Len(w) > WINDOW
        THEN (k :> SubSeq(w, Len(w) - WINDOW + 1, Len(w))) @@ d
        ELSE d

\* Searcher._prune_data, for one of the three dictionaries
Prune(d, k) ==
    LET WINDOW == Max(args.BEFORE, args.AFTER) + 1
        w == Win(d, k)
    IN  IF Len(w) > WINDOW
        THEN (k :> SubSeq(w, Len(w) - WINDOW + 1, Len(w))) @@ d
        ELSE d

\* source.topics.get(k) or 0
TotalOr0(k) == IF k \in DOMAIN topics /\ topics[k] # NoCount THEN topics[k] ELSE 0

\* Searcher._is_max_done
IsMaxDone(st, cs) ==
    LET maxed1 == args.MAX_MATCHES # 0 /\ SumTrue(cs) >= args.MAX_MATCHES
        count_required == IF args.MAX_TOPICS # 0 THEN args.MAX_TOPICS
                          ELSE Cardinality(DOMAIN topics)
        count_maxed == Cardinality({k \in DOMAIN cs :
                           \/ cs[k]["True"] >= args.MAX_TOPIC_MATCHES
                           \/ cs[k]["None"] >= TotalOr0(k)})
        is_maxed == IF ~maxed1 /\ args.MAX_TOPIC_MATCHES # 0
                    THEN count_maxed >= count_required
                    ELSE maxed1
    IN  /\ is_maxed
        /\ \/ args.AFTER = 0
           \/ ~\E k \in DOMAIN cs : HasInWindow(st, k, args.AFTER, "True", TRUE)

\* search() with the record ids restarted and nothing cleared
ClearData_never(fresh, d, empty) == d

\* search() on a change of source.get_batch(): `if self._counts:
\* self._clear_data()`, for one of the structures _clear_data empties
ClearData(fresh, d, empty) == IF fresh /\ DOMAIN counts # {} THEN empty ELSE d

\* rosapi.TypeMeta.discard of the records _prune_data pops from the window w
\* of _messages, leaving window pruned
Discard(tm, k, w, pruned) ==
    tm \ {<<srcBatch, k, w[i][2]>> : i \in 1..(Len(w) - Len(pruned))}

\* ------------------------------------------------------------ Searcher.search
\* One iteration of the loop of Searcher.search over a record the source yields
\* on channel k: srcOk is what source.is_processable answers for it, matchOk
\* whether get_match finds a match in it.
\* a batch change that adds nothing to the total
TotalMatched_dropped(fresh) == total_matched

\* search(), on a batch change: total_matched += sum(x[True] for x in
\* self._counts.values())
TotalMatched(fresh) ==
    IF fresh THEN total_matched + SumTrue(counts) ELSE total_matched

\* search(), last line: the value it returns if read() ends now
ReturnValue == total_matched + SumTrue(counts)

ProcessStep(k, srcOk, matchOk) ==
    /\ srcOpen
    /\ k \in DOMAIN topics
    /\ \E fresh \in {batch # srcBatch} :
       \E cs0 \in {ClearData(fresh, counts, <<>>)} :
       \E ctr0 \in {IF fresh THEN 0 ELSE counter} :
          /\ ctr0 < MaxMsgs
          /\ topics[k] = NoCount \/ Cnt(cs0, k, "None") < topics[k]
          /\ \E msgid \in {ctr0 + 1} :
             \* _register_message
             \E cs1 \in {Inc(cs0, k, "None")} :
             \E pos \in {cs1[k]["None"]} :
             \E ms1 \in {Put(ClearData(fresh, messages, <<>>), k, msgid, pos)} :
             \E ts1 \in {Put(ClearData(fresh, stamps, <<>>), k, msgid, pos)} :
             \E st1 \in {Put(ClearData(fresh, statuses, <<>>), k, msgid, "None")} :
             \E tm1 \in {ClearData(fresh, typemeta, {}) \cup {<<srcBatch, k, pos>>}} :
             \E matched \in {IsProcessable(cs1, k, srcOk) /\ matchOk} :
             \E emitIt \in {matched /\ IsNth(cs1, k)} :
             \E st2 \in {IF matched THEN Put(st1, k, msgid, "True") ELSE st1} :
             \E cs2 \in {IF matched THEN Inc(cs1, k, "True") ELSE cs1} :
             \E ctx \in {IF emitIt THEN EmitContext(st2, cs2, ms1, k, TRUE)
                         ELSE IF /\ ~matched
                                 /\ args.AFTER # 0
                                 /\ HasInWindow(st1, k, args.AFTER + 1, "True", FALSE)
                              THEN EmitContext(st1, cs1, ms1, k, FALSE)
                              ELSE [statuses |-> st2, counts |-> cs2, calls |-> <<>>]} :
             \E out \in {IF emitIt
                         THEN Append(ctx.calls, [topic |-> k, index |-> ctx.counts[k]["None"],
                                                 msg |-> pos, match |-> TRUE])
                         ELSE ctx.calls} :
             \E bm1 \in {(IF fresh THEN FALSE ELSE batch_matched) \/ matched} :
             \E st3 \in {Prune(ctx.statuses, k)} :
             \E logged \in {[matched |-> matched, hit |-> srcOk /\ matchOk]} :
                /\ total_matched' = TotalMatched(fresh)
                /\ batch' = srcBatch
                /\ counter' = msgid
                /\ counts' = ctx.counts
                /\ messages' = Prune(ms1, k)
                /\ typemeta' = Discard(tm1, k, Win(ms1, k), Win(Prune(ms1, k), k))
                /\ stamps' = Prune(ts1, k)
                /\ statuses' = st3
                /\ batch_matched' = bm1
                /\ emitted' = (IF fresh THEN <<>> ELSE emitted) \o out
                /\ matchlog' = IF fresh
                                  THEN [c \in DOMAIN matchlog |->
                                           IF c = k THEN <<logged>> ELSE <<>>]
                                  ELSE [matchlog EXCEPT ![k] = Append(@, logged)]
                \* sink.flush(), source.close_batch()
                /\ srcOpen' = ~(bm1 /\ IsMaxDone(st3, ctx.counts))
    /\ UNCHANGED <<args, topics, srcBatch>>

\* the iteration in a run whose source has no conditions and whose get_match
\* is taken by its verdict
Process(k, srcOk, matchOk) ==
    ProcessStep(k, srcOk, matchOk) /\ UNCHANGED <<condVars, matchVars, auxVars>>

\* args of a run that uses context and Nth-match decimation, no quota
ContextArgs ==
    [BEFORE : 0..MaxBefore, AFTER : 0..MaxAfter, MAX_MATCHES : {0},
     MAX_TOPIC_MATCHES : {0}, MAX_TOPICS : {0}, NTH_MATCH : 0..MaxNth]

\* args of a run that uses the quotas, with at most one record of after-context
QuotaArgs ==
    [BEFORE : {0}, AFTER : 0..1, MAX_MATCHES : 0..MaxQuota,
     MAX_TOPIC_MATCHES : 0..MaxQuota, MAX_TOPICS : 0..MaxQuota, NTH_MATCH : {1, MaxNth}]

\* source.topics of a live source: no total is known
LiveTopics == {[c \in Channels |-> NoCount]}

\* source.topics of a bag: the total of every channel is known
BagTopics == [Channels -> 1..MaxTotal]

\* Searcher.__init__ and _prepare
InitSearch(A, T) ==
    /\ args \in A
    /\ topics \in T
    /\ counts = <<>> /\ messages = <<>> /\ stamps = <<>> /\ statuses = <<>>
    /\ counter = 0 /\ batch = 0 /\ total_matched = 0 /\ batch_matched = FALSE
    /\ srcBatch = 0 /\ srcOpen = TRUE
    /\ emitted = <<>>
    /\ matchlog = [c \in DOMAIN topics |-> <<>>]
    /\ typemeta = {}

\* the Searcher of a run in which search() is not under study
SearchIdle ==
    InitSearch({[BEFORE |-> 0, AFTER |-> 0, MAX_MATCHES |-> 0, MAX_TOPIC_MATCHES |-> 0,
                 MAX_TOPICS |-> 0, NTH_MATCH |-> 0]}, LiveTopics)

Init == InitSearch(ContextArgs, LiveTopics) /\ CondIdle /\ MatchIdle /\ AuxIdle

InitQuota == InitSearch(QuotaArgs, BagTopics) /\ CondIdle /\ MatchIdle /\ AuxIdle

Next == \E k \in Channels, srcOk \in BOOLEAN, matchOk \in BOOLEAN : Process(k, srcOk, matchOk)

\* Searcher.search with BEFORE, AFTER and NTH_MATCH
Spec == Init /\ [][Next]_vars

\* Searcher.search with the quotas
SpecQuota == InitQuota /\ [][Next]_vars

\* largest args.AFTER of the runs that can stop early
MaxStopAfter == 2

\* args of a run that can stop early while after-context is still to come
StopArgs ==
    [BEFORE : {0}, AFTER : 0..MaxStopAfter, MAX_MATCHES : 0..1,
     MAX_TOPIC_MATCHES : 0..MaxQuota, MAX_TOPICS : 0..1, NTH_MATCH : {0}]

InitStop ==
    InitSearch(StopArgs, BagTopics \cup LiveTopics) /\ CondIdle /\ MatchIdle /\ AuxIdle

\* Searcher.search with the quotas and after-context, over a bag or live topics
SpecStop == InitStop /\ [][Next]_vars

\* ---------------------------------------------------------- ConditionMixin
MaxCondMsgs == 4   \* records read from the source in a condition run

\* "*" in t
IsWildcard(t) == t \in {"*/ctrl", "a/*"}

\* wildcard_to_regex(t, end=True).match(topic)
WildcardMatch(t, topic) ==
    \/ t = "*/ctrl" /\ topic \in {"a/ctrl", "b/ctrl"}
    \/ t = "a/*" /\ topic = "a/ctrl"

\* topickey of a wildcard without a real channel, and of an unknown name
NoKey == "None"

\* index expressions of the `<topic x>[index]` terms tried
Indexes == {-2, -1, 0, 1}

\* terms of a condition expression:  <topic x>.data > 0,
\* <topic x>[idx].data > 0,  <topic x>  and  len(<topic x>) > idx
Attr(t)    == [kind |-> "attr", tok |-> t, idx |-> 0]
Item(t, i) == [kind |-> "item", tok |-> t, idx |-> i]
Truth(t)   == [kind |-> "bool", tok |-> t, idx |-> 0]
LenOver(t, i) == [kind |-> "len", tok |-> t, idx |-> i]

\* condition expressions:  l,  l and r,  l or r
Only(l)      == [op |-> "only", l |-> l, r |-> l]
AndOf(l, r)  == [op |-> "and", l |-> l, r |-> r]
OrOf(l, r)   == [op |-> "or", l |-> l, r |-> r]

\* TOPIC_RGX.findall(v)
TokensOf(e) == IF e.op = "only" THEN {e.l.tok} ELSE {e.l.tok, e.r.tok}

\* terms `<topic x>[index]` of an expression
ItemsOf(e) == {x \in (IF e.op = "only" THEN {e.l} ELSE {e.l, e.r}) : x.kind = "item"}

SetMax(S) == CHOOSE m \in S : \A x \in S : x <= m

\* _configure_conditions, second loop: history length from <topic x>[index],
\* as <<max positive index + 1, max abs(negative index) or 1>>
ConfigureLimits(conds) ==
    LET items == UNION {ItemsOf(conds[i]) : i \in DOMAIN conds}
    IN  [t \in {x.tok : x \in items} |->
            << SetMax({1} \cup {x.idx + 1 : x \in {y \in items : y.tok = t /\ y.idx >= 0}}),
               SetMax({1} \cup {0 - x.idx : x \in {y \in items : y.tok = t /\ y.idx < 0}}) >>]

\* self._topic_limits[topic] of the defaultdict
LimitsOf(topic) == IF topic \in DOMAIN topic_limits THEN topic_limits[topic] ELSE <<1, 1>>

\* ConditionMixin.is_conditions_topic
IsConditionsTopic(topic, pure) ==
    IF conditions = <<>> THEN FALSE
    ELSE IF topic \in DOMAIN topic_states
         THEN (IF pure THEN topic_states[topic] ELSE TRUE)
    ELSE LET wildcarded == {t \in DOMAIN topic_states : IsWildcard(t) /\ WildcardMatch(t, topic)}
         IN  IF wildcarded = {} THEN FALSE
             ELSE IF pure THEN \A t \in wildcarded : topic_states[t] ELSE TRUE

\* d[topickey] of the history dicts
LastOf(lm, key) ==
    IF \E j \in DOMAIN lm : lm[j].key = key
        THEN lm[CHOOSE j \in DOMAIN lm : lm[j].key = key].msgs ELSE <<>>

FirstOf(fm, key) == IF key \in DOMAIN fm THEN fm[key] ELSE <<>>

\* ConditionMixin.conditions_register_message
ConditionsRegisterMessage(topic, msg) ==
    IF ~IsConditionsTopic(topic, FALSE)
        THEN [lastmsgs |-> lastmsgs, firstmsgs |-> firstmsgs]
    ELSE LET appended == Append(LastOf(lastmsgs, topic), msg)
             lasts    == IF Len(appended) > LimitsOf(topic)[2] THEN Tail(appended) ELSE appended
             firsts0  == FirstOf(firstmsgs, topic)
             firsts   == IF Len(firsts0) < LimitsOf(topic)[1] THEN Append(firsts0, msg) ELSE firsts0
         IN  [lastmsgs |->
                 IF \E j \in DOMAIN lastmsgs : lastmsgs[j].key = topic
                     THEN [j \in DOMAIN lastmsgs |->
                              IF lastmsgs[j].key = topic
                                  THEN [key |-> topic, msgs |-> lasts] ELSE lastmsgs[j]]
                     ELSE Append(lastmsgs, [key |-> topic, msgs |-> lasts]),
              firstmsgs |-> (topic :> firsts) @@ firstmsgs]

\* ConditionMixin._get_topic_instance over the dicts s; a Topic or an Empty
GetTopicInstance(s, topic, remap) ==
    LET topickey == IF topic \in DOMAIN remap THEN remap[topic]
                    ELSE IF \E j \in DOMAIN s.lastmsgs : s.lastmsgs[j].key = topic
                         THEN topic ELSE NoKey
    IN  IF topickey \notin DOMAIN s.counts \/ s.counts[topickey] = 0
            THEN [kind |-> "Empty", count |-> 0, firsts |-> <<>>, lasts |-> <<>>]
            ELSE [kind |-> "Topic", count |-> s.counts[topickey],
                  firsts |-> FirstOf(s.firstmsgs, topickey),
                  lasts |-> LastOf(s.lastmsgs, topickey)]

\* bool(value > 0) as an outcome of eval()
Truthy(b) == IF b THEN "True" ELSE "False"

\* one term: Topic.__getattr__, Topic.__getitem__, Topic.__bool__,
\* Topic.__len__ and the same of Empty, which defines neither __getitem__
\* nor __len__
EvalTerm(s, x, remap) ==
    LET p == GetTopicInstance(s, x.tok, remap)
    IN  CASE x.kind = "attr" ->
                IF p.kind = "Empty" \/ p.lasts = <<>> THEN "NoMessage"
                ELSE Truthy(p.lasts[Len(p.lasts)] > 0)
          [] x.kind = "item" ->
                IF p.kind = "Empty" THEN "Error"
                ELSE LET hist == IF x.idx < 0 THEN p.lasts ELSE p.firsts
                         pos  == IF x.idx < 0 THEN Len(hist) + x.idx + 1 ELSE x.idx + 1
                     IN  IF pos \in 1..Len(hist) THEN Truthy(hist[pos] > 0)
                         ELSE "NoMessage"
          [] x.kind = "len" ->
                IF p.kind = "Empty" THEN "Error" ELSE Truthy(p.count > x.idx)
          [] OTHER -> Truthy(p.kind = "Topic" /\ p.count # 0)

\* eval(code, ns): "True", "False", or the exception it raises
Eval(s, e, remap) ==
    LET a == EvalTerm(s, e.l, remap)
    IN  CASE e.op = "only" -> a
          [] e.op = "and"  -> IF a = "True" THEN EvalTerm(s, e.r, remap) ELSE a
          [] OTHER         -> IF a = "False" THEN EvalTerm(s, e.r, remap) ELSE a

\* itertools.product(*variants) as the sequence of dict(remaps)
RECURSIVE Product(_)
Product(variants) ==
    IF variants = <<>> THEN << EmptyMap >>
    ELSE LET rest == Product(Tail(variants))
             hd   == Head(variants)
             n    == Len(rest)
         IN  [j \in 1..(Len(hd) * n) |->
                 LET a == hd[((j - 1) \div n) + 1]
                     r == rest[((j - 1) % n) + 1]
                 IN  (a[1] :> a[2]) @@ r]

\* is_processable: wildcarded, realcarded and variants of condition i
Remaps(s, i) ==
    LET wildcarded == SelectSeq(topics_per_condition[i], IsWildcard)
        keys       == [j \in DOMAIN s.lastmsgs |-> s.lastmsgs[j].key]
        realcarded(wt) == SelectSeq(keys, LAMBDA t : WildcardMatch(wt, t))
        variants   == [w \in DOMAIN wildcarded |->
                          LET wt == wildcarded[w]
                              tt == realcarded(wt)
                          IN  IF tt = <<>> THEN << <<wt, NoKey>> >>
                              ELSE [j \in DOMAIN tt |-> <<wt, tt[j]>>]]
    IN  Product(variants)

\* EvalRemaps with the no-data signal handled like any other exception
RECURSIVE EvalRemaps_signalRaises(_, _, _, _, _)
EvalRemaps_signalRaises(s, i, remaps, j, acc) ==
    IF j > Len(remaps) THEN acc
    ELSE LET out == Eval(s, conditions[i], remaps[j])
             tr  == Append(acc.trace, [cond |-> i, remap |-> remaps[j], outcome |-> out])
         IN  IF out \in {"Error", "NoMessage"}
                 THEN [result |-> acc.result, raised |-> TRUE, trace |-> tr]
             ELSE IF out = "True" THEN [result |-> TRUE, raised |-> FALSE, trace |-> tr]
             ELSE EvalRemaps_signalRaises(s, i, remaps, j + 1,
                                          [result |-> FALSE, raised |-> FALSE, trace |-> tr])

\* is_processable: `for remaps in itertools.product(*variants)` from the
\* j-th combination on; acc is result, whether eval raised, and the evals made
RECURSIVE EvalRemaps(_, _, _, _, _)
EvalRemaps(s, i, remaps, j, acc) ==
    IF j > Len(remaps) THEN acc
    ELSE LET out == Eval(s, conditions[i], remaps[j])
             tr  == Append(acc.trace, [cond |-> i, remap |-> remaps[j], outcome |-> out])
             res == IF out = "NoMessage" THEN acc.result ELSE out = "True"
         IN  IF out = "Error" THEN [result |-> acc.result, raised |-> TRUE, trace |-> tr]
             ELSE IF res THEN [result |-> TRUE, raised |-> FALSE, trace |-> tr]
             ELSE EvalRemaps(s, i, remaps, j + 1,
                             [result |-> res, raised |-> FALSE, trace |-> tr])

\* EvalConditions without `if not result: break`
RECURSIVE EvalConditions_noStop(_, _, _)
EvalConditions_noStop(s, i, acc) ==
    IF i > Len(conditions) THEN acc
    ELSE LET r == EvalRemaps(s, i, Remaps(s, i), 1,
                             [result |-> FALSE, raised |-> FALSE, trace |-> acc.trace])
         IN  IF r.raised THEN r ELSE EvalConditions_noStop(s, i + 1, r)

\* is_processable: `for i, (expr, code) in enumerate(self._conditions.items())`
RECURSIVE EvalConditions(_, _, _)
EvalConditions(s, i, acc) ==
    IF i > Len(conditions) THEN acc
    ELSE LET r == EvalRemaps(s, i, Remaps(s, i), 1,
                             [result |-> FALSE, raised |-> FALSE, trace |-> acc.trace])
         IN  IF r.raised \/ ~r.result THEN r ELSE EvalConditions(s, i + 1, r)

\* ConditionMixin.is_processable over the dicts s
ConditionIsProcessable(s) ==
    EvalConditions(s, 1, [result |-> TRUE, raised |-> FALSE, trace |-> <<>>])

\* records read so far: sum(self._counts.values())
RECURSIVE SumOf(_, _)
SumOf(f, S) ==
    IF S = {} THEN 0
    ELSE LET x == CHOOSE y \in S : TRUE IN f[x] + SumOf(f, S \ {x})

CondReadCount == SumOf(src_counts, DOMAIN src_counts)

\* the dicts is_processable would see if the record were yielded before
\* conditions_register_message ran
GateState_unregistered(topic, reg) ==
    [counts |-> [src_counts EXCEPT ![topic] = @ + 1],
     lastmsgs |-> lastmsgs, firstmsgs |-> firstmsgs]

\* the dicts is_processable sees for a record of topic: _produce has counted
\* it and conditions_register_message (result reg) has run before the yield
GateState(topic, reg) ==
    [counts |-> [src_counts EXCEPT ![topic] = @ + 1],
     lastmsgs |-> reg.lastmsgs, firstmsgs |-> reg.firstmsgs]

\* the source reads one record and, unless its channel only feeds conditions,
\* yields it to the Searcher, which asks is_processable
CondReadStep(topic, msg) ==
    /\ gate # "raised"
    /\ CondReadCount < MaxCondMsgs
    /\ \E reg \in {ConditionsRegisterMessage(topic, msg)} :
         \E s \in {GateState(topic, reg)} :
           \E r \in {ConditionIsProcessable(s)} :
              /\ src_counts' = s.counts
              /\ lastmsgs' = reg.lastmsgs
              /\ firstmsgs' = reg.firstmsgs
              /\ history' = IF IsConditionsTopic(topic, FALSE)
                                THEN [history EXCEPT ![topic] = Append(@, msg)]
                                ELSE history
              /\ IF IsConditionsTopic(topic, TRUE)
                    THEN /\ gate' = "none" /\ evtrace' = <<>>
                         /\ UNCHANGED <<errors, signalled>>
                    ELSE /\ gate' = IF r.raised THEN "raised" ELSE Truthy(r.result)
                         /\ evtrace' = r.trace
                         /\ errors' = IF r.raised THEN errors + 1 ELSE errors
                         /\ signalled' = (signalled \/
                                \E j \in DOMAIN r.trace : r.trace[j].outcome = "NoMessage")
    /\ UNCHANGED <<conditions, topics_per_condition, topic_states, topic_limits, selected>>

\* the same in a run whose Searcher is not under study
CondRead(topic, msg) ==
    CondReadStep(topic, msg) /\ UNCHANGED <<searchVars, matchVars, auxVars>>

\* the conditions tried: none, one or two expressions
CondInputs ==
    LET W == "*/ctrl"
        A == "a/*"
        S == "speed"
    IN  {<<>>}
        \cup {<<Only(x)>> : x \in {Attr(S), Attr(W), Truth(S), Item(W, -1),
                                   Item(W, -2), LenOver(S, 1)}}
        \cup {<<Only(Item(S, i))>> : i \in Indexes}
        \cup {<<AndOf(Attr(W), Attr(S))>>, <<OrOf(Attr(W), Item(S, -1))>>,
              <<AndOf(Attr(W), Attr(A))>>}
        \cup {<<Only(Attr(S)), Only(Attr(W))>>, <<Only(Attr(W)), Only(Item(S, -1))>>}

\* list(set(names)): the names in any order
ListsOf(S) == {f \in [1..Cardinality(S) -> S] : {f[j] : j \in DOMAIN f} = S}

\* ConditionMixin.__init__ and _configure_conditions, then the source's setup:
\* a live source leaves every name as used for conditions only; a bag that
\* holds the channels marks the plain names as also matched (_configure)
InitConditions(C, live) ==
    /\ conditions \in C
    /\ topics_per_condition \in
           {tp \in [DOMAIN conditions ->
                       UNION {ListsOf(TokensOf(conditions[i])) : i \in DOMAIN conditions}] :
               \A i \in DOMAIN conditions : tp[i] \in ListsOf(TokensOf(conditions[i]))}
    /\ topic_states = [t \in UNION {TokensOf(conditions[i]) : i \in DOMAIN conditions} |->
                           live \/ IsWildcard(t)]
    /\ topic_limits = ConfigureLimits(conditions)
    /\ lastmsgs = <<>> /\ firstmsgs = EmptyMap
    /\ src_counts = [t \in CondTopics |-> 0]
    /\ gate = "none" /\ errors = 0 /\ evtrace = <<>> /\ signalled = FALSE
    /\ history = [t \in CondTopics |-> <<>>]
    /\ selected = CondTopics

InitCond == (\E live \in BOOLEAN : InitConditions(CondInputs, live)) /\ SearchIdle /\ MatchIdle /\ AuxIdle

\* the records a source reads: message.data of each channel
DataOf(topic) == IF topic = "out" THEN {0} ELSE {0, 1}

NextCond == \E topic \in CondTopics : \E msg \in DataOf(topic) : CondRead(topic, msg)

\* the condition evaluator fed by a source
SpecCond == InitCond /\ [][NextCond]_vars

\* ------------------------------------- source.read() feeding Searcher.search
MaxFlowCtx == 1   \* largest args.BEFORE and args.AFTER of a run with conditions

\* channels of a run with conditions: the one the conditions name and another
FlowTopics == {"speed", "out"}

\* the iteration of Searcher.search that source.is_processable leaves with an
\* exception: the record is registered, nothing after it runs
ProcessRaised(k) ==
    LET fresh == batch # srcBatch
        cs1   == Inc(ClearData(fresh, counts, <<>>), k, "None")
        msgid == (IF fresh THEN 0 ELSE counter) + 1
        pos   == cs1[k]["None"]
    IN  /\ srcOpen
        /\ k \in DOMAIN topics
        /\ total_matched' = TotalMatched(fresh)
        /\ batch' = srcBatch
        /\ counter' = msgid
        /\ counts' = cs1
        /\ messages' = Put(ClearData(fresh, messages, <<>>), k, msgid, pos)
        /\ stamps' = Put(ClearData(fresh, stamps, <<>>), k, msgid, pos)
        /\ statuses' = Put(ClearData(fresh, statuses, <<>>), k, msgid, "None")
        /\ typemeta' = ClearData(fresh, typemeta, {}) \cup {<<srcBatch, k, pos>>}
        /\ batch_matched' = IF fresh THEN FALSE ELSE batch_matched
        /\ emitted' = IF fresh THEN <<>> ELSE emitted
        /\ matchlog' = IF fresh THEN [c \in DOMAIN matchlog |-> <<>>] ELSE matchlog
        /\ UNCHANGED <<args, topics, srcBatch, srcOpen>>

\* TopicSource.read / BagSource.read hand one record over: it is counted and
\* registered for the conditions, and unless its channel is used for
\* conditions only it is yielded to the loop of Searcher.search, whose
\* _is_processable asks ConditionMixin.is_processable (no quota is set);
\* matchOk is whether get_match finds a match in it
FlowRead(topic, msg, matchOk) ==
    /\ CondReadStep(topic, msg)
    /\ IF IsConditionsTopic(topic, TRUE)
          THEN ~matchOk /\ typemeta' = typemeta \cup {<<srcBatch, topic, src_counts'[topic]>>}
               /\ UNCHANGED <<args, counts, messages, stamps, statuses, counter, batch,
                              total_matched, batch_matched, topics, srcBatch, srcOpen,
                              emitted, matchlog>>
          ELSE IF gate' = "raised" THEN ~matchOk /\ ProcessRaised(topic)
          ELSE ProcessStep(topic, gate' = "True", matchOk)
    /\ UNCHANGED <<matchVars, auxVars>>

\* args of a run with conditions: context, no quota and no decimation
FlowArgs ==
    [BEFORE : 0..MaxFlowCtx, AFTER : 0..MaxFlowCtx, MAX_MATCHES : {0},
     MAX_TOPIC_MATCHES : {0}, MAX_TOPICS : {0}, NTH_MATCH : {0}]

\* args.CONDITIONS of the runs: none, the latest record of speed, and the
\* indexes that make its history longer than one record
FlowConds ==
    {<<>>, <<Only(Attr("speed"))>>, <<Only(Item("speed", -2))>>,
     <<Only(Item("speed", 0))>>, <<Only(Item("speed", 1))>>}

\* a live source (totals unknown, speed used for conditions only) or a bag
\* (totals known, speed also yielded)
InitFlow ==
    \E live \in BOOLEAN :
        /\ InitSearch(FlowArgs, {[t \in FlowTopics |->
                                     IF live THEN NoCount ELSE MaxCondMsgs]})
        /\ InitConditions(FlowConds, live)
        /\ MatchIdle /\ AuxIdle

NextFlow ==
    \E topic \in FlowTopics : \E msg \in DataOf(topic) : \E matchOk \in BOOLEAN :
        FlowRead(topic, msg, matchOk)

\* Searcher.search over a source with conditions
SpecFlow == InitFlow /\ [][NextFlow]_vars

\* ------------------------------------- BagSource over a bag with user filters
\* the channels of the bag, and the conditions of the runs over it
BagChannels == {"a/ctrl", "speed", "out"}
BagConds ==
    {<<>>, <<Only(Attr("speed"))>>, <<Only(Attr("*/ctrl"))>>,
     <<AndOf(Attr("*/ctrl"), Attr("speed"))>>}

\* _configure: the channels of the bag that the name t of a condition stands for
ConfigureMatches(t) == {c \in BagChannels : c = t \/ (IsWildcard(t) /\ WildcardMatch(t, c))}

\* _configure: self._topics, the channels read from the bag: those the filters
\* select and those added for the conditions
BagReadTopics(conds, sel) ==
    sel \cup UNION {ConfigureMatches(t) : t \in UNION {TokensOf(conds[i]) : i \in DOMAIN conds}}

\* _configure: every name of the conditions is first set to conditions-only;
\* then each channel c a name stands for is added, dct.setdefault(c, ..), and
\* conditions_set_topic_state(c, c not in dct) sets the state of c where c is
\* itself a name
BagTopicStates(conds, sel) ==
    LET names == UNION {TokensOf(conds[i]) : i \in DOMAIN conds}
        added == UNION {ConfigureMatches(t) : t \in names}
    IN  [t \in names |-> IF t \in added THEN t \notin (sel \cup {t}) ELSE TRUE]

InitBagFilter ==
    /\ InitSearch({[BEFORE |-> 0, AFTER |-> 0, MAX_MATCHES |-> 0, MAX_TOPIC_MATCHES |-> 0,
                    MAX_TOPICS |-> 0, NTH_MATCH |-> 0]},
                  {[t \in BagChannels |-> MaxCondMsgs]})
    /\ conditions \in BagConds
    /\ topics_per_condition \in
           {tp \in [DOMAIN conditions ->
                       UNION {ListsOf(TokensOf(conditions[i])) : i \in DOMAIN conditions}] :
               \A i \in DOMAIN conditions : tp[i] \in ListsOf(TokensOf(conditions[i]))}
    /\ selected \in SUBSET BagChannels
    /\ topic_states = BagTopicStates(conditions, selected)
    /\ topic_limits = ConfigureLimits(conditions)
    /\ lastmsgs = <<>> /\ firstmsgs = EmptyMap
    /\ src_counts = [t \in CondTopics |-> 0]
    /\ gate = "none" /\ errors = 0 /\ evtrace = <<>> /\ signalled = FALSE
    /\ history = [t \in CondTopics |-> <<>>]
    /\ MatchIdle /\ AuxIdle

\* BagSource.read: _produce yields the records of the channels in self._topics
NextBagFilter ==
    \E topic \in BagChannels : \E msg \in DataOf(topic) : \E matchOk \in BOOLEAN :
        /\ topic \in BagReadTopics(conditions, selected)
        /\ FlowRead(topic, msg, matchOk)

\* Searcher.search over a bag read with topic filters and conditions
SpecBagFilter == InitBagFilter /\ [][NextBagFilter]_vars

\* ------------------------------------------- BagSource.read over several bags
MaxBatches == 1   \* bags after the first one

\* BagSource.read goes on to the next bag, once the current one is exhausted
\* or was closed by close_batch: close_batch() drops the condition history,
\* _configure() resets the source's counts and totals and get_batch() changes
NextBatch(totals) ==
    /\ srcBatch < MaxBatches
    /\ batch = srcBatch
    /\ ~srcOpen \/ \A k \in DOMAIN topics : Cnt(counts, k, "None") >= topics[k]
    /\ srcBatch' = srcBatch + 1
    /\ srcOpen' = TRUE
    /\ topics' = totals
    /\ lastmsgs' = <<>> /\ firstmsgs' = EmptyMap
    /\ src_counts' = [t \in DOMAIN src_counts |-> 0]
    /\ history' = [t \in DOMAIN history |-> <<>>]
    /\ UNCHANGED <<args, counts, messages, stamps, statuses, counter, batch,
                   total_matched, batch_matched, emitted, matchlog, typemeta>>
    /\ UNCHANGED <<conditions, topics_per_condition, topic_states, topic_limits,
                   gate, errors, evtrace, signalled, selected>>
    /\ UNCHANGED <<matchVars, auxVars>>

\* args of a run over several bags: context and a per-channel quota
BatchArgs ==
    [BEFORE : 0..1, AFTER : 0..1, MAX_MATCHES : {0},
     MAX_TOPIC_MATCHES : 0..1, MAX_TOPICS : {0}, NTH_MATCH : {0}]

\* source.topics of the bags of the run: every channel with the same total,
\* and every bag with the same channels and totals
BatchTopics == {[c \in Channels |-> n] : n \in 1..MaxTotal}

InitBatch == InitSearch(BatchArgs, BatchTopics) /\ CondIdle /\ MatchIdle /\ AuxIdle

NextBatches ==
    \/ \E k \in Channels, srcOk \in BOOLEAN, matchOk \in BOOLEAN : Process(k, srcOk, matchOk)
    \/ \E totals \in {topics} : NextBatch(totals)

\* Searcher.search over a source of several bags
SpecBatch == InitBatch /\ [][NextBatches]_vars

\* ------------------------------------------------------ Searcher.get_match
MaxFields == 2   \* fields of a message
MaxCalls  == 2   \* get_match calls of a run

\* field values: a string scalar, a nested message with its field values in
\* order, a list with its items (a field is named by its position)
Scalar(t) == [kind |-> "str", text |-> t, items |-> <<>>]
Msg(fs)   == [kind |-> "msg", text |-> "", items |-> fs]
List(xs)  == [kind |-> "list", text |-> "", items |-> xs]

\* what get_match returns for no match
NoneValue == [kind |-> "None", text |-> "", items |-> <<>>]

RECURSIVE SeqsUpTo(_, _)
SeqsUpTo(S, n) ==
    IF n = 0 THEN {<<>>}
    ELSE LET shorter == SeqsUpTo(S, n - 1)
         IN  shorter \cup {Append(q, x) : q \in {p \in shorter : Len(p) = n - 1}, x \in S}

\* values the first field of a record holds
FieldValues ==
    {Scalar(""), Scalar("x"), Scalar("y"), Msg(<<>>), Msg(<<Scalar("x")>>),
     List(<<>>), List(<<Scalar("x")>>), List(<<Msg(<<>>)>>)}

\* values the further fields of a record hold
MoreValues == {Scalar("x"), Scalar("y")}

\* the records handed to get_match
Records ==
    {Msg(<<>>)} \cup {Msg(<<v>> \o more) : v \in FieldValues,
                                           more \in SeqsUpTo(MoreValues, MaxFields - 1)}

\* common.MatchMarkers.START and END
START == "<"
END   == ">"

\* Searcher.ANY_MATCHES[0], the rule (any path, "(.*)"); the other two members
\* of the list are not (path, pattern) pairs and equal no rule
AnyMatch == [path |-> <<>>, rgx |-> "(.*)"]

ANY_MATCHES == {AnyMatch}

\* a content rule as _parse_patterns compiles it from "path=rgx" or "rgx"
Rule(path, rgx) == [path |-> path, rgx |-> rgx]

\* Searcher._parse_patterns: self._patterns["content"]
ParsePatterns(patterns) == IF patterns = <<>> THEN <<AnyMatch>> ELSE patterns

\* x in v, for strings
Contains(v, x) == \E i \in 1..(Len(v) - Len(x) + 1) : SubSeq(v, i, i + Len(x) - 1) = x

\* _parse_patterns, NOBRUTE_SIGILS: the regex specials that rule out a brute
\* precheck
HasSigil(rgx) == Contains(rgx, "\\A") \/ Contains(rgx, "\\Z") \/ Contains(rgx, "?(")

\* Searcher._parse_patterns: self._brute_prechecks, the expressions probed in
\* the text of the whole record (RAW is off)
BrutePrechecks(a) ==
    IF a.INVERT THEN {}
    ELSE {a.PATTERNS[i].rgx : i \in {j \in DOMAIN a.PATTERNS : ~HasSigil(a.PATTERNS[j].rgx)}}

\* _prepare that does not look at INVERT
Prepare_anyInvert(a) ==
    /\ ~a.highlighting
    /\ a.SELECT_FIELDS = {} /\ a.NOSELECT_FIELDS = {}
    /\ {ParsePatterns(a.PATTERNS)[i] : i \in DOMAIN ParsePatterns(a.PATTERNS)} \subseteq ANY_MATCHES

\* Searcher._prepare: self._passthrough
Prepare(a) ==
    /\ ~a.highlighting
    /\ a.SELECT_FIELDS = {} /\ a.NOSELECT_FIELDS = {}
    /\ ~a.INVERT
    /\ {ParsePatterns(a.PATTERNS)[i] : i \in DOMAIN ParsePatterns(a.PATTERNS)} \subseteq ANY_MATCHES

\* str(v) of a value that is not walked into
Str(v) == IF v.kind = "list" THEN "[]" ELSE v.text

\* the expression between the anchors of "^..$" and of "\A..\Z"
Anchored(rgx) ==
    IF Len(rgx) > 2 /\ SubSeq(rgx, 1, 1) = "^" /\ SubSeq(rgx, Len(rgx), Len(rgx)) = "$"
        THEN SubSeq(rgx, 2, Len(rgx) - 1)
    ELSE IF Len(rgx) > 4 /\ SubSeq(rgx, 1, 2) = "\\A"
            /\ SubSeq(rgx, Len(rgx) - 1, Len(rgx)) = "\\Z"
        THEN SubSeq(rgx, 3, Len(rgx) - 2)
    ELSE ""

\* p.finditer(v1) of a content rule (re.DOTALL) yields a match m with
\* `not v1 or m.start() != m.end()`
Finds(rgx, v1) ==
    IF rgx = "(.*)" THEN TRUE
    ELSE IF Anchored(rgx) # "" THEN v1 = Anchored(rgx)
    ELSE Contains(v1, rgx)

\* p.finditer(text) of a brute precheck (re.M) finds the expression in a line
\* of the text
BruteFinds(rgx, line) ==
    IF rgx = "(.*)" THEN TRUE
    ELSE IF Anchored(rgx) # "" THEN line = Anchored(rgx)
    ELSE Contains(line, rgx)

\* "%r" % (v, ) of a value rosapi.iter_message_fields yields
RECURSIVE ReprOf(_)
RECURSIVE ReprAll(_)
ReprAll(vs) ==
    IF vs = <<>> THEN ""
    ELSE ReprOf(Head(vs)) \o (IF Len(vs) > 1 THEN ", " ELSE "") \o ReprAll(Tail(vs))

ReprOf(v) ==
    CASE v.kind = "str"  -> "'" \o v.text \o "'"
      [] v.kind = "list" -> "[" \o ReprAll(v.items) \o "]"
      [] OTHER           -> "M(" \o ReprAll(v.items) \o ")"

\* the lines of "\n".join("%r" % (v, ) for _, v, _ in iter_message_fields(msg))
RECURSIVE BruteLines(_)
BruteLines(obj) ==
    UNION {IF obj.items[k].kind = "msg" THEN BruteLines(obj.items[k])
           ELSE {ReprOf(obj.items[k])} : k \in DOMAIN obj.items}

\* get_match: all(any(p.finditer(text)) for p in self._brute_prechecks)
BruteOk(a, msg) ==
    \A rgx \in BrutePrechecks(a) : \E line \in BruteLines(msg) : BruteFinds(rgx, line)

\* path.search(".".join(top)) of a content rule scoped to a field path: the
\* path names consecutive fields of top
PathAccepts(path, top) ==
    \/ path = <<>>
    \/ \E i \in 1..(Len(top) - Len(path) + 1) : SubSeq(top, i, i + Len(path) - 1) = path

\* get_match.wrap_matches: the text with its markers and the rules that find
\* a match in it. The texts are single tokens: a match spans the whole text.
WrapMatches(a, v, top, is_collection) ==
    LET content == ParsePatterns(a.PATTERNS)
        v1 == IF is_collection /\ v # "[]" THEN SubSeq(v, 2, Len(v) - 1) ELSE v
        hits == {i \in DOMAIN content :
                    PathAccepts(content[i].path, top) /\ Finds(content[i].rgx, v1)}
        spans == IF ~a.INVERT THEN hits # {}
                 ELSE hits = {} /\ (v1 # "" \/ ~is_collection)
        v2 == IF spans THEN START \o v1 \o END ELSE v1
    IN  [text |-> IF is_collection /\ v # "[]" THEN "[" \o v2 \o "]" ELSE v2,
         matched |-> hits]

\* filter_fields that does not look at the select rules
FilterFields_noInclude(fieldmap, top, include, exclude) ==
    {k \in fieldmap : Append(top, k) \notin exclude}

\* common.filter_fields: the fields left visible by the select and noselect
\* rules (a rule names a field path)
FilterFields(fieldmap, top, include, exclude) ==
    {k \in fieldmap : /\ include = {} \/ Append(top, k) \in include
                      /\ Append(top, k) \notin exclude}

\* get_match.process_message: obj as the walk leaves it, and the rules
\* `matched` gains while it walks obj
RECURSIVE ProcessMessage(_, _, _)
ProcessMessage(a, obj, top) ==
    IF obj.kind = "msg"
    THEN LET fieldmap == FilterFields(DOMAIN obj.items, top,
                                      a.SELECT_FIELDS, a.NOSELECT_FIELDS)
             field(k) ==
                 LET v    == obj.items[k]
                     path == Append(top, k)
                     w    == WrapMatches(a, Str(v), path, v.kind = "list")
                 IN  IF v.kind = "msg" THEN ProcessMessage(a, v, path)
                     ELSE IF v.kind = "list" /\ v.items # <<>>
                          THEN [obj |-> List([j \in DOMAIN v.items |->
                                                ProcessMessage(a, v.items[j], path).obj]),
                                matched |-> UNION {ProcessMessage(a, v.items[j], path).matched :
                                                      j \in DOMAIN v.items}]
                     ELSE [obj |-> IF Len(w.text) # Len(Str(v)) THEN Scalar(w.text) ELSE v,
                           matched |-> w.matched]
         IN  [obj |-> Msg([k \in DOMAIN obj.items |->
                              IF k \in fieldmap THEN field(k).obj ELSE obj.items[k]]),
              matched |-> UNION {field(k).matched : k \in fieldmap}]
    ELSE LET w == WrapMatches(a, Str(obj), top, FALSE)
         IN  [obj |-> IF Len(w.text) # Len(Str(obj)) THEN Scalar(w.text) ELSE obj,
              matched |-> w.matched]

\* copy.deepcopy(msg) in get_match: the objects after it and the one the walk
\* works on; the record given is object 1
DeepCopy_alias(heap) == [heap |-> heap, ref |-> 1]

DeepCopy(heap) == [heap |-> Append(heap, heap[1]), ref |-> Len(heap) + 1]

\* get_match from copy.deepcopy(msg) on: process_message over the copy and the
\* verdict `yes`
FullWalk(a, msg) ==
    LET content  == ParsePatterns(a.PATTERNS)
        copied   == DeepCopy(<<msg>>)
        walk     == ProcessMessage(a, copied.heap[copied.ref], <<>>)
        heap     == [copied.heap EXCEPT ![copied.ref] = walk.obj]
        \* process_message, top level: "Ensure Empty any-match"
        matched  == IF /\ walk.matched = {} /\ a.SELECT_FIELDS = {} /\ msg.items = <<>>
                       /\ ~a.INVERT
                       /\ {content[i] : i \in DOMAIN content} \subseteq ANY_MATCHES
                    THEN DOMAIN content ELSE walk.matched
        yes      == IF a.INVERT THEN matched = {}
                    ELSE Cardinality(matched) = Len(content)
    IN  [returned |-> IF yes THEN "copy" ELSE "None",
         result   |-> IF yes THEN heap[copied.ref] ELSE NoneValue,
         original |-> heap[1],
         walked   |-> TRUE]

\* get_match: the verdict ("given" for the record itself, "copy" for its
\* marked deep copy, "None" for no match), the value returned, the record
\* given as the call leaves it, and whether process_message ran
GetMatchResult(a, pass, msg) ==
    IF pass
        THEN [returned |-> "given", result |-> msg, original |-> msg, walked |-> FALSE]
    ELSE IF ~BruteOk(a, msg)
        THEN [returned |-> "None", result |-> NoneValue, original |-> msg,
              walked |-> FALSE]
    ELSE FullWalk(a, msg)

\* Searcher.get_match(msg)
GetMatch(msg) ==
    /\ calls < MaxCalls
    /\ \E r \in {GetMatchResult(margs, passthrough, msg)} :
          /\ given' = msg
          /\ returned' = r.returned
          /\ result' = r.result
          /\ original' = r.original
          /\ walked' = r.walked
    /\ calls' = calls + 1
    /\ UNCHANGED <<margs, passthrough>>
    /\ UNCHANGED <<searchVars, condVars, auxVars>>

\* args.PATTERNS of the runs: none, one expression, two expressions, one
\* scoped to the first field, one anchored with ^ and $, one with \A and \Z
PatternInputs ==
    {<<>>, <<Rule(<<>>, "x")>>, <<Rule(<<>>, "x"), Rule(<<>>, "y")>>,
     <<Rule(<<1>>, "x")>>, <<Rule(<<>>, "^x$")>>, <<Rule(<<>>, "\\Ax\\Z")>>}

\* args of a run and whether its sink highlights; SELECT_FIELDS names the
\* second field or none, NOSELECT_FIELDS hides the first field or none
MatchArgs ==
    [PATTERNS : PatternInputs, INVERT : BOOLEAN, SELECT_FIELDS : {{}, {<<2>>}},
     NOSELECT_FIELDS : {{}, {<<1>>}}, highlighting : BOOLEAN]

\* Searcher.__init__, _parse_patterns and _prepare
InitMatch ==
    /\ margs \in MatchArgs
    /\ passthrough = Prepare(margs)
    /\ given = EmptyMap /\ returned = "none" /\ calls = 0
    /\ result = EmptyMap /\ original = EmptyMap /\ walked = FALSE
    /\ SearchIdle /\ CondIdle /\ AuxIdle

NextMatch == \E msg \in Records : GetMatch(msg)

\* get_match over the records of a run
SpecMatch == InitMatch /\ [][NextMatch]_vars

\* ------------------------------------------------- claims on Searcher.search
Min(a, b) == IF a <= b THEN a ELSE b

\* the positions, in channel c, of the records that matched
MatchPos(c) == {p \in 1..Len(matchlog[c]) : matchlog[c][p].matched}

\* the same, oldest first
MatchSeq(c) ==
    SelectSeq([p \in 1..Len(matchlog[c]) |-> p], LAMBDA p : matchlog[c][p].matched)

\* the sink.emit calls made for channel c, in order
EmitsOf(c) == SelectSeq(emitted, LAMBDA e : e.topic = c)

\* record p of channel c was passed to the sink as a match
EmittedAsMatch(c, p) ==
    \E i \in 1..Len(emitted) :
        emitted[i].topic = c /\ emitted[i].msg = p /\ emitted[i].match

\* _is_processable for the next record of channel c, as search() calls it
\* right after _register_message
NextProcessable(c, srcOk) == IsProcessable(Inc(counts, c, "None"), c, srcOk)

\* C1: when exactly one record of a channel matches, at position p, the sink
\* gets for that channel exactly the records max(1,p-BEFORE)..p-1 as context,
\* oldest first, then p as the match, then the records p+1..p+AFTER that have
\* arrived as context, and no other record of the channel.
C1_SingleMatchContext ==
    \A c \in Channels :
        Cardinality(MatchPos(c)) = 1 =>
            LET p  == CHOOSE q \in MatchPos(c) : TRUE
                lo == Max(1, p - args.BEFORE)
                hi == Min(Len(matchlog[c]), p + args.AFTER)
                es == EmitsOf(c)
            IN  /\ Len(es) = hi - lo + 1
                /\ \A i \in 1..Len(es) :
                       /\ es[i].msg = lo + i - 1
                       /\ es[i].match = (lo + i - 1 = p)

\* C2: with MAX_TOPIC_MATCHES = m > 0, a record of a channel that already has m
\* matched records is rejected by _is_processable, is not matched and is not
\* emitted as a match, and it is still counted in counts[None].
C2_TopicQuota ==
    args.MAX_TOPIC_MATCHES # 0 =>
        \A c \in Channels :
            LET m   == args.MAX_TOPIC_MATCHES
                log == matchlog[c]
            IN  /\ Cnt(counts, c, "None") = Len(log)
                /\ \A p \in 1..Len(log) :
                       Cardinality({q \in 1..(p - 1) : log[q].matched}) >= m =>
                           ~log[p].matched /\ ~EmittedAsMatch(c, p)
                /\ Cnt(counts, c, "True") >= m =>
                       \A s \in BOOLEAN : ~NextProcessable(c, s)

\* a record that source and patterns accept arrived on a channel that had
\* reached MAX_TOPIC_MATCHES, the only quota set, and was not matched
C2_Witness ==
    /\ args.MAX_TOPIC_MATCHES # 0 /\ args.MAX_MATCHES = 0 /\ args.MAX_TOPICS = 0
    /\ \E c \in Channels : \E p \in 1..Len(matchlog[c]) :
          /\ matchlog[c][p].hit /\ ~matchlog[c][p].matched
          /\ Cardinality({q \in 1..(p - 1) : matchlog[c][q].matched})
                = args.MAX_TOPIC_MATCHES
          /\ Cnt(counts, c, "None") >= p

RECURSIVE SumCard(_)
SumCard(S) ==
    IF S = {} THEN 0
    ELSE LET c == CHOOSE x \in S : TRUE
         IN  Cardinality(MatchPos(c)) + SumCard(S \ {c})

\* C3: with MAX_MATCHES = m > 0 the matched records of all channels together
\* never exceed m, and once m is reached _is_processable rejects the next
\* record of every channel.
C3_TotalQuota ==
    args.MAX_MATCHES # 0 =>
        /\ SumTrue(counts) <= args.MAX_MATCHES
        /\ SumCard(Channels) = SumTrue(counts)
        /\ SumTrue(counts) >= args.MAX_MATCHES =>
               \A c \in Channels, s \in BOOLEAN : ~NextProcessable(c, s)

\* MAX_MATCHES, the only quota set, is reached and a record that source and
\* patterns accept was not matched
C3_Witness ==
    /\ args.MAX_MATCHES # 0 /\ args.MAX_TOPIC_MATCHES = 0 /\ args.MAX_TOPICS = 0
    /\ SumTrue(counts) = args.MAX_MATCHES
    /\ \E c \in Channels : \E p \in 1..Len(matchlog[c]) :
          matchlog[c][p].hit /\ ~matchlog[c][p].matched

\* C4: with MAX_TOPICS = t > 0 at most t channels have a matched record; a
\* channel with no match is rejected once t channels have matched, and the
\* channels that have matched are still accepted (unless another quota or the
\* source rejects the record).
C4_TopicsQuota ==
    args.MAX_TOPICS # 0 =>
        LET M == {c \in DOMAIN counts : counts[c]["True"] # 0}
        IN  /\ Cardinality(M) <= args.MAX_TOPICS
            /\ M = {c \in Channels : MatchPos(c) # {}}
            /\ \A c \in Channels \ M :
                   Cardinality(M) >= args.MAX_TOPICS =>
                       \A s \in BOOLEAN : ~NextProcessable(c, s)
            /\ \A c \in M :
                   /\ args.MAX_MATCHES = 0 \/ SumTrue(counts) < args.MAX_MATCHES
                   /\ args.MAX_TOPIC_MATCHES = 0
                         \/ counts[c]["True"] < args.MAX_TOPIC_MATCHES
                   => NextProcessable(c, TRUE)

\* MAX_TOPICS, the only quota set, is reached: a channel without a match had
\* an acceptable record turned away, and a channel with a match matched again
C4_Witness ==
    /\ args.MAX_TOPICS # 0 /\ args.MAX_MATCHES = 0 /\ args.MAX_TOPIC_MATCHES = 0
    /\ \E c \in Channels :
          /\ MatchPos(c) = {}
          /\ \E p \in 1..Len(matchlog[c]) : matchlog[c][p].hit
    /\ \E c \in Channels : Cardinality(MatchPos(c)) >= 2

\* C5: with NTH_MATCH = N > 1 exactly one of every N consecutive matches of a
\* channel is emitted; a match that is not emitted has status True and is
\* counted in counts[True] like the others; with NTH_MATCH 1 or unset every
\* match is emitted.
C5_NthMatch ==
    \A c \in Channels :
        LET N  == args.NTH_MATCH
            ms == MatchSeq(c)
            w  == Win(statuses, c)
        IN  /\ Cnt(counts, c, "True") = Len(ms)
            /\ N > 1 => \A j \in 1..(Len(ms) - N + 1) :
                   Cardinality({i \in j..(j + N - 1) : EmittedAsMatch(c, ms[i])}) = 1
            /\ N <= 1 => \A j \in 1..Len(ms) : EmittedAsMatch(c, ms[j])
            /\ \A i \in 1..Len(w) :
                   matchlog[c][Get(messages, c, w[i][1])].matched <=> w[i][2] = "True"
            /\ \A p \in 1..Len(matchlog[c]) :
                   EmittedAsMatch(c, p) => matchlog[c][p].matched

\* a channel has more than N > 1 matches, the second of them not emitted
C5_Witness ==
    /\ args.NTH_MATCH > 1
    /\ \E c \in Channels :
          /\ Len(MatchSeq(c)) > args.NTH_MATCH
          /\ ~EmittedAsMatch(c, MatchSeq(c)[2])
          /\ Cnt(counts, c, "True") = Len(MatchSeq(c))

\* ---------------------------------------------- claims on Searcher.get_match
\* C6: without content patterns get_match returns a match for every record,
\* whatever its fields, when INVERT is off, and None for every record when
\* INVERT is on.
C6_NoPatternVerdict ==
    calls > 0 /\ margs.PATTERNS = <<>> =>
        IF margs.INVERT THEN returned = "None" ELSE returned # "None"

\* ------------------------------------------------- claims on ConditionMixin
\* the dicts the last is_processable call has read
CondNow == [counts |-> src_counts, lastmsgs |-> lastmsgs, firstmsgs |-> firstmsgs]

\* real channels with history that a wildcard name stands for
KnownFor(wt) == {lastmsgs[j].key : j \in {x \in DOMAIN lastmsgs : WildcardMatch(wt, lastmsgs[x].key)}}

\* the combinations of condition i: each wildcard name bound to one known
\* channel, or to no channel when none is known
Combinations(i) ==
    LET wts == {t \in TokensOf(conditions[i]) : IsWildcard(t)}
    IN  {f \in [wts -> CondTopics \cup {NoKey}] :
            \A wt \in wts : IF KnownFor(wt) = {} THEN f[wt] = NoKey
                            ELSE f[wt] \in KnownFor(wt)}

\* the channel a name stands for in a combination, and whether it has data
KeyOf(tok, remap) == IF tok \in DOMAIN remap THEN remap[tok] ELSE tok

NoData(tok, remap) ==
    KeyOf(tok, remap) \notin CondTopics \/ src_counts[KeyOf(tok, remap)] = 0

\* the last call evaluated condition i / found a combination of it true
Evaluated(i) == \E j \in DOMAIN evtrace : evtrace[j].cond = i

Passed(i) == \E j \in DOMAIN evtrace : evtrace[j].cond = i /\ evtrace[j].outcome = "True"

\* C7: a condition is evaluated per combination of the channels known for its
\* wildcard names (each at most once) and passes iff some combination is true:
\* a combination that touches a channel without data does not keep another
\* combination from passing.
C7_AnyCombination ==
    \A i \in DOMAIN conditions :
        Evaluated(i) =>
            /\ \A j \in DOMAIN evtrace :
                   evtrace[j].cond = i =>
                       /\ evtrace[j].remap \in Combinations(i)
                       /\ \A k \in DOMAIN evtrace :
                              evtrace[k].cond = i /\ evtrace[k].remap = evtrace[j].remap
                                  => k = j
            /\ Passed(i) <=> \E r \in Combinations(i) : Eval(CondNow, conditions[i], r) = "True"

\* C8: is_processable answers true only if every condition is true for the
\* record, evaluates no condition after the first failing one, and answers
\* true for every record when no condition is configured.
C8_AllConditions ==
    /\ gate = "True" =>
           \A i \in DOMAIN conditions :
               \E r \in Combinations(i) : Eval(CondNow, conditions[i], r) = "True"
    /\ \A i \in DOMAIN conditions :
           Evaluated(i) => \A h \in 1..(i - 1) : Passed(h)
    /\ conditions = <<>> /\ CondReadCount > 0 => gate = "True"

\* a record passed both conditions of a run after an earlier one was held back
C8_Witness ==
    /\ Len(conditions) = 2 /\ gate = "True" /\ signalled
    /\ \A i \in DOMAIN conditions : Passed(i)

\* C9: attribute access on a name without a record, or on the empty
\* placeholder an index beyond the history yields, raises the no-data signal;
\* the signal makes that evaluation count as false, is not logged and does not
\* leave is_processable.
C9_NoDataSignal ==
    /\ \A j \in DOMAIN evtrace :
           LET x == conditions[evtrace[j].cond].l
               r == evtrace[j].remap
               hist == IF x.idx < 0 THEN LastOf(lastmsgs, KeyOf(x.tok, r))
                       ELSE FirstOf(firstmsgs, KeyOf(x.tok, r))
               beyond == IF x.idx < 0 THEN 0 - x.idx > Len(hist) ELSE x.idx >= Len(hist)
           IN  /\ x.kind = "attr" /\ NoData(x.tok, r) => evtrace[j].outcome = "NoMessage"
               /\ x.kind = "item" /\ ~NoData(x.tok, r) /\ beyond
                      => evtrace[j].outcome = "NoMessage"
               /\ evtrace[j].outcome = "NoMessage" =>
                      IF j = Len(evtrace) THEN gate = "False" /\ errors = 0
                      ELSE evtrace[j + 1].cond = evtrace[j].cond
    /\ errors > 0 => gate = "raised" /\ evtrace[Len(evtrace)].outcome = "Error"

\* a record passes a condition on <topic speed>.data that an earlier record
\* failed for lack of data
C9_Witness ==
    /\ conditions = <<Only(Attr("speed"))>>
    /\ signalled /\ gate = "True" /\ errors = 0

\* C10: indexing a name never raises: beyond the retained history and before
\* the first record of the channel alike it yields the empty placeholder, so
\* the evaluation counts as false and the run goes on.
C10_IndexNeverRaises ==
    /\ gate # "raised" /\ errors = 0
    /\ \A j \in DOMAIN evtrace :
           LET e == conditions[evtrace[j].cond]
           IN  e.op = "only" /\ e.l.kind = "item" /\ NoData(e.l.tok, evtrace[j].remap)
                   => evtrace[j].outcome = "NoMessage"

\* -------------------------------------------- rosapi.calculate_definition_hash
MaxDefLines  == 2   \* lines of a definition before its subtype definitions
MaxHashCalls == 2   \* calculate_definition_hash calls of a run

\* s[i], the empty string past the end
Char(s, i) == IF i \in 1..Len(s) THEN SubSeq(s, i, i) ELSE ""

\* s[n:]
From(s, n) == SubSeq(s, n + 1, Len(s))

\* s.index(c) counted from 1, 0 if c is not in s
IndexOf(s, c) ==
    IF \E i \in 1..Len(s) : Char(s, i) = c
        THEN CHOOSE i \in 1..Len(s) : Char(s, i) = c /\ \A j \in 1..(i - 1) : Char(s, j) # c
    ELSE 0

\* position of the last c in s, 0 if c is not in s
LastIndexOf(s, c) ==
    IF \E i \in 1..Len(s) : Char(s, i) = c
        THEN CHOOSE i \in 1..Len(s) : Char(s, i) = c /\ \A j \in (i + 1)..Len(s) : Char(s, j) # c
    ELSE 0

StartsWith(s, p) == Len(s) >= Len(p) /\ SubSeq(s, 1, Len(p)) = p

RECURSIVE LStrip(_)
LStrip(s) == IF Char(s, 1) = " " THEN LStrip(From(s, 1)) ELSE s

RECURSIVE RStrip(_)
RStrip(s) == IF Char(s, Len(s)) = " " THEN RStrip(SubSeq(s, 1, Len(s) - 1)) ELSE s

\* s.strip()
Strip(s) == LStrip(RStrip(s))

\* length of the longest prefix of s that holds no character of stops: what a
\* greedy [^...]+ takes
RECURSIVE Run(_, _)
Run(s, stops) == IF s = "" \/ Char(s, 1) \in stops THEN 0 ELSE 1 + Run(From(s, 1), stops)

\* [a-z] under re.I
Letters ==
    {"a", "b", "c", "d", "e", "f", "g", "h", "i", "j", "k", "l", "m", "n", "o", "p", "q",
     "r", "s", "t", "u", "v", "w", "x", "y", "z", "A", "B", "C", "D", "E", "F", "G", "H",
     "I", "J", "K", "L", "M", "N", "O", "P", "Q", "R", "S", "T", "U", "V", "W", "X", "Y",
     "Z"}

\* FIELD_RGX.match(line) of calculate_definition_hash,
\* ^([a-z][^\s:]+)\s+([^\s=]+)(\s*=\s*([^\n]+))?(\s+([^\n]+))?
\* ok: it matches; g1, g2: type and name; g3: group 3 took part; g4: the
\* constant value; g5: group 5 took part; g6: the text after the name
FieldRgx(line) ==
    LET n1 == Run(line, {" ", ":"})
        r1 == From(line, n1)
        r2 == LStrip(r1)
        n2 == Run(r2, {" ", "="})
        r3 == From(r2, n2)
        r4 == LStrip(r3)
        g3 == Char(r4, 1) = "=" /\ Len(r4) > 1
        g5 == ~g3 /\ Char(r3, 1) = " " /\ Len(r3) > 1
    IN  [ok |-> Char(line, 1) \in Letters /\ n1 > 1 /\ Char(r1, 1) = " " /\ n2 > 0,
         g1 |-> SubSeq(line, 1, n1),
         g2 |-> SubSeq(r2, 1, n2),
         g3 |-> g3,
         g4 |-> IF LStrip(From(r4, 1)) = "" THEN " " ELSE LStrip(From(r4, 1)),
         g5 |-> g5,
         g6 |-> IF r4 = "" THEN " " ELSE r4]

\* STR_CONST_RGX.match(line), ^w?string\s+([^\s=#]+)\s*=
StrConstRgx(line) ==
    LET r1 == IF StartsWith(line, "wstring") THEN From(line, 7)
              ELSE IF StartsWith(line, "string") THEN From(line, 6) ELSE ""
        r2 == LStrip(r1)
        n  == Run(r2, {" ", "=", "#"})
    IN  Char(r1, 1) = " " /\ n > 0 /\ Char(LStrip(From(r2, n)), 1) = "="

\* a line read with its comment left in
CutComment_keep(line) == line

\* if "#" in line and not STR_CONST_RGX.match(line): line = line[:line.index("#")]
CutComment(line) ==
    IF IndexOf(line, "#") > 0 /\ ~StrConstRgx(line)
        THEN SubSeq(line, 1, IndexOf(line, "#") - 1)
    ELSE line

\* set(line) == set("="), the subtype separator
IsSeparator(line) == line # "" /\ \A i \in 1..Len(line) : Char(line, i) = "="

\* the lines both passes of calculate_definition_hash read: those before the
\* first separator
RECURSIVE MainLines(_)
MainLines(lines) ==
    IF lines = <<>> \/ IsSeparator(Head(lines)) THEN <<>>
    ELSE <<Head(lines)>> \o MainLines(Tail(lines))

\* "\n".join(curlines) read back with splitlines(): a last empty line is lost
SplitJoin(lines) ==
    IF lines # <<>> /\ lines[Len(lines)] = "" THEN SubSeq(lines, 1, Len(lines) - 1)
    ELSE lines

\* parse_definition_subtypes, the loop over typedef.splitlines(): result as
\* the lines leave it, a definition being its lines
RECURSIVE SubtypeLoop(_, _, _, _)
SubtypeLoop(lines, curtype, curlines, subdefs) ==
    IF lines = <<>>
        THEN IF curtype # "" THEN (curtype :> SplitJoin(curlines)) @@ subdefs ELSE subdefs
    ELSE LET line == Head(lines)
         IN  IF IsSeparator(line) /\ curtype # ""
                 THEN SubtypeLoop(Tail(lines), "", <<>>,
                                  (curtype :> SplitJoin(curlines)) @@ subdefs)
             ELSE IF StartsWith(line, "MSG: ") /\ Len(line) > 5
                 THEN SubtypeLoop(Tail(lines), From(line, 5), <<>>, subdefs)
             ELSE IF ~IsSeparator(line) /\ curtype # ""
                 THEN SubtypeLoop(Tail(lines), curtype, Append(curlines, line), subdefs)
             ELSE SubtypeLoop(Tail(lines), curtype, curlines, subdefs)

\* parse_definition_subtypes(typedef): {subtype name: definition}. The nested
\* definitions it appends to a subtype definition follow a separator line,
\* where calculate_definition_hash stops reading, and are all in extradefs.
ParseDefinitionSubtypes(typedef) == SubtypeLoop(typedef, "", <<>>, EmptyMap)

\* ros2.scalar(typename)
ScalarType(typename) ==
    LET t == IF IndexOf(typename, "[") > 0
                 THEN SubSeq(typename, 1, IndexOf(typename, "[") - 1) ELSE typename
        le == {i \in 1..(Len(t) - 1) : SubSeq(t, i, i + 1) = "<="}
    IN  IF le # {} THEN SubSeq(t, 1, (CHOOSE i \in le : \A j \in le : i <= j) - 1) ELSE t

\* rosapi.ROS_COMMON_TYPES: the built-in types and the time types
ROS_COMMON_TYPES ==
    {"byte", "char", "int8", "int16", "int32", "int64", "uint8", "uint16", "uint32",
     "uint64", "float32", "float64", "bool", "string", "wstring",
     "builtin_interfaces/Time", "builtin_interfaces/Duration"}

\* "\n".join(lines)
RECURSIVE JoinLines(_)
JoinLines(lines) ==
    IF lines = <<>> THEN ""
    ELSE Head(lines) \o (IF Len(lines) > 1 THEN "\n" ELSE "") \o JoinLines(Tail(lines))

\* hashlib.md5(text).hexdigest(), taken as free of collisions
Md5(text) == "md5{" \o text \o "}"

\* the digest of a call that raised KeyError at subtypedefs[subtype]
KeyError == "KeyError"

\* typename.rsplit("/", 1)[0]
PkgOf(typename) ==
    IF LastIndexOf(typename, "/") > 0
        THEN SubSeq(typename, 1, LastIndexOf(typename, "/") - 1)
    ELSE typename

\* first pass of calculate_definition_hash: the constants
RECURSIVE ConstLines(_)
ConstLines(lines) ==
    IF lines = <<>> THEN <<>>
    ELSE LET m == FieldRgx(CutComment(Head(lines)))
         IN  (IF m.ok /\ m.g3 THEN <<m.g1 \o " " \o m.g2 \o "=" \o Strip(m.g4)>> ELSE <<>>)
                 \o ConstLines(Tail(lines))

\* rosapi.calculate_definition_hash(typename, msgdef, extradefs), msgdef as
\* its lines and extradefs as a mapping
RECURSIVE CalculateDefinitionHash(_, _, _)
RECURSIVE FieldLines(_, _, _)
FieldLines(lines, pkg, subtypedefs) ==
    IF lines = <<>> THEN <<>>
    ELSE LET m == FieldRgx(CutComment(Head(lines)))
             scalartype == ScalarType(m.g1)
             subtype == IF IndexOf(scalartype, "/") > 0 THEN scalartype
                        ELSE IF scalartype = "Header" THEN "std_msgs/Header"
                        ELSE pkg \o "/" \o scalartype
             typestr == IF scalartype \in ROS_COMMON_TYPES THEN m.g1
                        ELSE IF subtype \notin DOMAIN subtypedefs THEN KeyError
                        ELSE CalculateDefinitionHash(subtype, subtypedefs[subtype],
                                                     subtypedefs)
             namestr == IF scalartype \in ROS_COMMON_TYPES /\ m.g5
                            THEN Strip(m.g2 \o " " \o m.g6) ELSE m.g2
         IN  (IF m.ok /\ ~m.g3
                  THEN <<IF typestr = KeyError THEN KeyError ELSE typestr \o " " \o namestr>>
                  ELSE <<>>)
                 \o FieldLines(Tail(lines), pkg, subtypedefs)

CalculateDefinitionHash(typename, msgdef, extradefs) ==
    LET subtypedefs == ParseDefinitionSubtypes(msgdef) @@ extradefs
        main   == MainLines(msgdef)
        fields == FieldLines(main, PkgOf(typename), subtypedefs)
    IN  IF \E i \in DOMAIN fields : fields[i] = KeyError THEN KeyError
        ELSE Md5(JoinLines(ConstLines(main) \o fields))

\* the lines a definition is made of, and the definition of the subtype
\* p/Sub that may follow them
LineBases == {"int32 x", "string s", "int32 K=1", "string C=a", "Sub sub", ""}

SubtypeSection == <<"====", "MSG: p/Sub", "int32 y">>

HashTexts ==
    {main \o section : main \in SeqsUpTo(LineBases, MaxDefLines),
                       section \in {<<>>, SubtypeSection}}

\* the comments a line is given, with the blanks before them
Comments == {"", "#c", "  # c=d"}

\* a line that holds a field, a constant, a comment or nothing: no separator
\* and no "MSG: " header
IsContentLine(line) == ~IsSeparator(line) /\ ~StartsWith(line, "MSG: ")

\* line with the text from its first "#" on, and the blanks before it,
\* replaced by c
WithComment(line, c) ==
    RStrip(IF IndexOf(line, "#") > 0 THEN SubSeq(line, 1, IndexOf(line, "#") - 1) ELSE line)
        \o c

InitHash ==
    /\ hname = "p/T"
    /\ hdef \in HashTexts
    /\ hdigest = "" /\ hbase = "" /\ hcalls = 0 /\ hfresh = FALSE /\ hstr = FALSE
    /\ SearchIdle /\ CondIdle /\ MatchIdle /\ LiveIdle /\ SqlIdle

\* calculate_definition_hash(hname, hdef)
HashCall ==
    /\ hcalls < MaxHashCalls
    /\ \E d \in {CalculateDefinitionHash(hname, hdef, EmptyMap)} :
          /\ hdigest' = d
          /\ hbase' = IF hcalls = 0 THEN d ELSE hbase
    /\ hcalls' = hcalls + 1
    /\ hfresh' = TRUE
    /\ UNCHANGED <<hname, hdef, hstr>>
    /\ UNCHANGED <<searchVars, condVars, matchVars, liveVars, sqlVars>>

\* the caller changes the comment of line i of the definition text
EditComment(i, c) ==
    /\ hcalls > 0 /\ hcalls < MaxHashCalls
    /\ IsContentLine(hdef[i])
    /\ WithComment(hdef[i], c) # hdef[i]
    /\ hdef' = [hdef EXCEPT ![i] = WithComment(hdef[i], c)]
    /\ hstr' = (hstr \/ StrConstRgx(hdef[i]))
    /\ hfresh' = FALSE
    /\ UNCHANGED <<hname, hdigest, hbase, hcalls>>
    /\ UNCHANGED <<searchVars, condVars, matchVars, liveVars, sqlVars>>

NextHash ==
    \/ HashCall
    \/ \E i \in DOMAIN hdef, c \in Comments : EditComment(i, c)

\* calculate_definition_hash over definition texts and their comments
SpecHash == InitHash /\ [][NextHash]_vars

\* ------------------------------------------------------ inputs.TopicSource
MaxLiveMsgs == 2   \* subscription callbacks of a run

\* live topics
LiveNames == {"t1", "t2"}

\* (None, None, None), the item close() wakes the iterator with
Sentinel == "None"

\* the rest of the model's state, which a TopicSource step leaves alone
LiveFrame == UNCHANGED <<searchVars, condVars, matchVars, hashVars, sqlVars>>

\* the consumer thread is inside close(), so cannot run read()
ConsumerInClose == closer = "consumer" /\ cpc \notin {"idle", "closed", "raised"}

InitLive ==
    /\ running = FALSE /\ queue = <<>> /\ queueRef = FALSE
    /\ subs = {} /\ ltopics = {}
    /\ avail \in (SUBSET LiveNames) \ {{}}
    /\ rpc = "start" /\ cpc = "idle" /\ closer = "none" /\ opc = "idle" /\ fpc = "off"
    /\ sent = 0 /\ yielded = <<>> /\ stopped = FALSE /\ late = FALSE /\ wrote = {}
    /\ SearchIdle /\ CondIdle /\ MatchIdle /\ HashIdle /\ SqlIdle

\* rosapi.get_topic_types() comes to list one more topic
TopicAppears(t) ==
    /\ t \notin avail
    /\ avail' = avail \cup {t}
    /\ UNCHANGED <<running, queue, queueRef, subs, ltopics, rpc, cpc, closer, opc, fpc,
                   sent, yielded, stopped, late, wrote>>
    /\ LiveFrame

\* read(), first call: `if not self._running:` up to t.start()
ReadStart ==
    /\ rpc = "start" /\ ~running
    /\ running' = TRUE /\ queue' = <<>> /\ queueRef' = TRUE
    /\ subs' = subs \cup avail /\ ltopics' = ltopics \cup avail
    /\ fpc' = "sleep"
    /\ rpc' = "check"
    /\ wrote' = wrote \cup {<<"consumer", "_running">>, <<"consumer", "_queue">>,
                            <<"consumer", "_subs">>, <<"consumer", "topics">>}
    /\ UNCHANGED <<avail, cpc, closer, opc, sent, yielded, stopped, late>>
    /\ LiveFrame

\* read(): `while self._running:`, and the two assignments after the loop
ReadCheck ==
    /\ rpc = "check" /\ ~ConsumerInClose
    /\ IF running
          THEN rpc' = "load" /\ UNCHANGED <<queueRef, running, wrote>>
          ELSE /\ rpc' = "done" /\ queueRef' = FALSE /\ running' = FALSE
               /\ wrote' = wrote \cup {<<"consumer", "_running">>, <<"consumer", "_queue">>}
    /\ UNCHANGED <<queue, subs, ltopics, avail, cpc, closer, opc, fpc, sent, yielded,
                   stopped, late>>
    /\ LiveFrame

\* read(): `self._queue.get` is looked up; on None it raises AttributeError
ReadLoad ==
    /\ rpc = "load"
    /\ rpc' = IF queueRef THEN "get" ELSE "raised"
    /\ UNCHANGED <<running, queue, queueRef, subs, ltopics, avail, cpc, closer, opc, fpc,
                   sent, yielded, stopped, late, wrote>>
    /\ LiveFrame

\* read(): self._queue.get() returns an item; a record is counted, registered
\* for the conditions and yielded
ReadGet ==
    /\ rpc = "get" /\ queue # <<>>
    /\ queue' = Tail(queue)
    /\ IF Head(queue) = Sentinel
          THEN rpc' = "check" /\ UNCHANGED <<yielded, late, wrote>>
          ELSE /\ rpc' = "yield"
               /\ yielded' = Append(yielded, Head(queue))
               /\ late' = (late \/ stopped)
               /\ wrote' = wrote \cup {<<"consumer", "_counts">>, <<"consumer", "_lastmsgs">>,
                                       <<"consumer", "_firstmsgs">>}
    /\ UNCHANGED <<running, queueRef, subs, ltopics, avail, cpc, closer, opc, fpc, sent,
                   stopped>>
    /\ LiveFrame

\* the consumer asks the generator for the next record
ReadResume ==
    /\ rpc = "yield" /\ ~ConsumerInClose
    /\ rpc' = "check"
    /\ UNCHANGED <<running, queue, queueRef, subs, ltopics, avail, cpc, closer, opc, fpc,
                   sent, yielded, stopped, late, wrote>>
    /\ LiveFrame

\* close() is called: by the consumer between two records (Searcher.search,
\* source.close_batch()), or by another thread at any point of the loop
CloseCall(who) ==
    /\ cpc = "idle"
    /\ IF who = "consumer" THEN rpc = "yield" ELSE rpc \in {"check", "load", "get", "yield"}
    /\ closer' = who
    /\ cpc' = "unregister"
    /\ running' = FALSE
    /\ stopped' = TRUE
    /\ wrote' = wrote \cup {<<who, "_running">>}
    /\ UNCHANGED <<queue, queueRef, subs, ltopics, avail, rpc, opc, fpc, sent, yielded, late>>
    /\ LiveFrame

\* close(): the subscriptions are unregistered
CloseUnregister ==
    /\ cpc = "unregister"
    /\ subs' = {}
    /\ cpc' = "test"
    /\ wrote' = wrote \cup {<<closer, "_subs">>}
    /\ UNCHANGED <<running, queue, queueRef, ltopics, avail, rpc, closer, opc, fpc, sent,
                   yielded, stopped, late>>
    /\ LiveFrame

\* close(): `self._queue and ...`
CloseTest ==
    /\ cpc = "test"
    /\ cpc' = IF queueRef THEN "put" ELSE "clear"
    /\ UNCHANGED <<running, queue, queueRef, subs, ltopics, avail, rpc, closer, opc, fpc,
                   sent, yielded, stopped, late, wrote>>
    /\ LiveFrame

\* close(): `self._queue.put((None, None, None))`; on None it raises
ClosePut ==
    /\ cpc = "put"
    /\ IF queueRef
          THEN cpc' = "clear" /\ queue' = Append(queue, Sentinel)
          ELSE cpc' = "raised" /\ UNCHANGED queue
    /\ UNCHANGED <<running, queueRef, subs, ltopics, avail, rpc, closer, opc, fpc, sent,
                   yielded, stopped, late, wrote>>
    /\ LiveFrame

\* close(): `self._queue = None`, ConditionMixin.close_batch, SourceBase.close
CloseClear ==
    /\ cpc = "clear"
    /\ queueRef' = FALSE
    /\ ltopics' = {}
    /\ cpc' = "closed"
    /\ wrote' = wrote \cup {<<closer, "_queue">>, <<closer, "topics">>, <<closer, "_counts">>,
                            <<closer, "_lastmsgs">>, <<closer, "_firstmsgs">>}
    /\ UNCHANGED <<running, queue, subs, avail, rpc, closer, opc, fpc, sent, yielded,
                   stopped, late>>
    /\ LiveFrame

\* _on_message of a subscribed topic: `self._queue and ...`
OnMessage(t) ==
    /\ opc = "idle" /\ t \in subs /\ sent < MaxLiveMsgs
    /\ sent' = sent + 1
    /\ opc' = IF queueRef THEN t ELSE "idle"
    /\ UNCHANGED <<running, queue, queueRef, subs, ltopics, avail, rpc, cpc, closer, fpc,
                   yielded, stopped, late, wrote>>
    /\ LiveFrame

\* _on_message: `self._queue.put((topic, msg, stamp))`; on None it raises in
\* the callback's thread
OnMessagePut ==
    /\ opc \in LiveNames
    /\ opc' = "idle"
    /\ IF queueRef
          THEN queue' = Append(queue, opc) /\ wrote' = wrote \cup {<<"callback", "_queue">>}
          ELSE UNCHANGED <<queue, wrote>>
    /\ UNCHANGED <<running, queueRef, subs, ltopics, avail, rpc, cpc, closer, fpc, sent,
                   yielded, stopped, late>>
    /\ LiveFrame

\* _run_refresh: `while self._running:` after time.sleep
RefreshCheck ==
    /\ fpc = "sleep"
    /\ fpc' = IF running THEN "refresh" ELSE "ended"
    /\ UNCHANGED <<running, queue, queueRef, subs, ltopics, avail, rpc, cpc, closer, opc,
                   sent, yielded, stopped, late, wrote>>
    /\ LiveFrame

\* refresh_topics in the thread of _run_refresh: a topic that is not in
\* self.topics is subscribed to and entered
RefreshTopic(t) ==
    /\ fpc = "refresh" /\ t \in avail \ ltopics
    /\ subs' = subs \cup {t}
    /\ ltopics' = ltopics \cup {t}
    /\ wrote' = wrote \cup {<<"refresh", "_subs">>, <<"refresh", "topics">>}
    /\ UNCHANGED <<running, queue, queueRef, avail, rpc, cpc, closer, opc, fpc, sent,
                   yielded, stopped, late>>
    /\ LiveFrame

\* refresh_topics returns, the thread sleeps
RefreshDone ==
    /\ fpc = "refresh"
    /\ fpc' = "sleep"
    /\ UNCHANGED <<running, queue, queueRef, subs, ltopics, avail, rpc, cpc, closer, opc,
                   sent, yielded, stopped, late, wrote>>
    /\ LiveFrame

NextLive ==
    \/ \E t \in LiveNames : TopicAppears(t)
    \/ ReadStart \/ ReadCheck \/ ReadLoad \/ ReadGet \/ ReadResume
    \/ \E who \in {"consumer", "closer"} : CloseCall(who)
    \/ CloseUnregister \/ CloseTest \/ ClosePut \/ CloseClear
    \/ \E t \in LiveNames : OnMessage(t)
    \/ OnMessagePut
    \/ RefreshCheck
    \/ \E t \in LiveNames : RefreshTopic(t)
    \/ RefreshDone

\* a live TopicSource, its consumer, its callbacks and its refresh thread
SpecLive == InitLive /\ [][NextLive]_vars

\* ------------------------------------------------------------ SqlSink
\* records read in a run of the SQL sink, and ticks of the clock in it
MaxSqlMsgs == 3
MaxClock == 3

\* TypeMeta.LIFETIME, seconds before a message is cleared from the cache
LIFETIME == 2

SqlTopicNames == {"/a", "/b"}
\* (typename, typehash) of the records
SqlTypeKeys == {<<"p/T", "h1">>, <<"p/T", "h2">>}
\* topic=None of a TypeMeta registered without a topic
NoTopic == "None"

SqlFrame == UNCHANGED <<searchVars, condVars, matchVars, hashVars, liveVars>>

\* dict d without the keys in S
Without(d, S) == [x \in DOMAIN d \ S |-> d[x]]

\* TypeMeta.sweep() at time now
Sweep(reg, now) ==
    IF reg.lastsweep < now - LIFETIME THEN reg
    ELSE LET drop == {i \in DOMAIN reg.timings :
                         reg.timings[i] > now \/ reg.timings[i] < now - LIFETIME}
             kids == UNION {reg.children[i] : i \in drop \cap DOMAIN reg.children}
         IN  [cache |-> Without(reg.cache, drop \cup kids),
              children |-> Without(reg.children, drop),
              timings |-> Without(reg.timings, drop \cup kids),
              lastsweep |-> now]

\* the registry after TypeMeta.make(msg, topic) at time now
Make(reg, id, topic, now) ==
    Sweep(IF id \in DOMAIN reg.cache THEN reg
          ELSE [reg EXCEPT !.cache = (id :> topic) @@ @,
                           !.timings = (id :> now) @@ @], now)

\* the topic of the TypeMeta that TypeMeta.make(msg, topic) returns
MadeTopic(reg, id, topic) == IF id \in DOMAIN reg.cache THEN reg.cache[id] ELSE topic

\* SqlSink._ensure_open
EnsureOpen(sink) == IF sink.state = "open" THEN sink ELSE [sink EXCEPT !.state = "open"]

\* SqlSink._write_entity
WriteEntity(sink, entity) == [sink EXCEPT !.file = Append(@, entity)]

\* SqlSink._process_type with nesting off, for the typekey of the message
ProcessType(sink, typekey) ==
    IF typekey \in sink.types THEN sink
    ELSE WriteEntity([sink EXCEPT !.types = @ \cup {typekey}],
                     <<"table", typekey[1], typekey[2]>>)

\* SqlSink._process_topic, for the topickey TypeMeta gives for the message
ProcessTopic(sink, topickey, topic) ==
    IF topickey \in DOMAIN sink.topics THEN sink
    ELSE WriteEntity([sink EXCEPT !.topics = (topickey :> topic) @@ @],
                     <<"view", topic, topickey[2], topickey[3]>>)

\* order of the strings of the keys; None sorts first where it sorts at all
SortOrder == <<NoTopic, "/a", "/b", "h1", "h2", "p/T">>
Rank(s) == CHOOSE i \in 1..Len(SortOrder) : SortOrder[i] = s

RECURSIVE TupleLess(_, _)
TupleLess(a, b) ==
    IF a = <<>> \/ b = <<>> THEN a = <<>> /\ b # <<>>
    ELSE IF Rank(a[1]) # Rank(b[1]) THEN Rank(a[1]) < Rank(b[1])
    ELSE TupleLess(Tail(a), Tail(b))

\* sorted(keys)
RECURSIVE Sorted(_)
Sorted(keys) ==
    IF keys = {} THEN <<>>
    ELSE LET m == CHOOSE x \in keys : \A y \in keys \ {x} : TupleLess(x, y)
         IN  <<m>> \o Sorted(keys \ {m})

\* sorted() compares None with str: a TypeError in Python 3
Unorderable(keys) ==
    \E a \in keys : \E b \in keys : a[1] = NoTopic /\ b[1] # NoTopic

CloseOutcomes(sink) ==
    IF sink.state = "open" /\ Unorderable(DOMAIN sink.topics)
    THEN {"sorted", "raised"} ELSE {"sorted"}

\* the file after seek(0) and writing the entities in `written`, each entity
\* taken as one unit of the file
Overlay(written, old) == written \o SubSeq(old, Len(written) + 1, Len(old))

\* SqlSink.close up to self._file = None
SqlSinkClose(sink, outcome) ==
    IF sink.state # "open" THEN [sink EXCEPT !.state = "closed"]
    ELSE LET tkeys  == Sorted(sink.types)
             tables == [i \in 1..Len(tkeys) |-> <<"table", tkeys[i][1], tkeys[i][2]>>]
             vkeys  == Sorted(DOMAIN sink.topics)
             views  == [i \in 1..Len(vkeys) |->
                           <<"view", sink.topics[vkeys[i]], vkeys[i][2], vkeys[i][3]>>]
         IN  IF outcome = "raised"
             THEN [sink EXCEPT !.file = Overlay(tables, @), !.state = "raised"]
             ELSE [sink EXCEPT !.file = Overlay(tables \o views, @), !.state = "closed"]

InitSql ==
    /\ SqlIdle
    /\ SearchIdle /\ CondIdle /\ MatchIdle /\ HashIdle /\ LiveIdle

\* time passes
Tick ==
    /\ clock < MaxClock
    /\ clock' = clock + 1
    /\ UNCHANGED <<registry, sqlMsgs, sqlSink, sqlEmitted, metaWindow>>
    /\ SqlFrame

\* the search reads a record and registers it: TypeMeta.make(msg, topic)
SqlRead(topic, type) ==
    /\ Len(sqlMsgs) < MaxSqlMsgs
    /\ sqlSink.state \in {"init", "open"}
    /\ sqlMsgs' = Append(sqlMsgs, [topic |-> topic, type |-> type])
    /\ registry' = Make(registry, Len(sqlMsgs) + 1, topic, clock)
    /\ UNCHANGED <<clock, sqlSink, sqlEmitted, metaWindow>>
    /\ SqlFrame

\* SqlSink.emit(topic, index, stamp, msg, match) for a record read before
SqlEmit(id) ==
    /\ id \in DOMAIN sqlMsgs /\ id \notin sqlEmitted
    /\ sqlSink.state \in {"init", "open"}
    /\ \E m \in {sqlMsgs[id]} :
       \E reg1 \in {Make(registry, id, NoTopic, clock)} :
       \E topickey \in {<<MadeTopic(reg1, id, m.topic), m.type[1], m.type[2]>>} :
          /\ registry' = Make(reg1, id, m.topic, clock)
          /\ sqlSink' = ProcessTopic(ProcessType(EnsureOpen(sqlSink), m.type),
                                     topickey, m.topic)
    /\ sqlEmitted' = sqlEmitted \cup {id}
    /\ UNCHANGED <<clock, sqlMsgs, metaWindow>>
    /\ SqlFrame

\* SqlSink.close()
SqlClose ==
    /\ sqlSink.state \in {"init", "open"}
    /\ \E outcome \in CloseOutcomes(sqlSink) : sqlSink' = SqlSinkClose(sqlSink, outcome)
    /\ UNCHANGED <<clock, registry, sqlMsgs, sqlEmitted, metaWindow>>
    /\ SqlFrame

NextSql ==
    \/ Tick
    \/ \E topic \in SqlTopicNames : \E type \in SqlTypeKeys : SqlRead(topic, type)
    \/ \E id \in 1..MaxSqlMsgs : SqlEmit(id)
    \/ SqlClose

\* a search that writes its results with SqlSink
SpecSql == InitSql /\ [][NextSql]_vars

\* --------------------------------------- the TypeMeta registry under a search
\* id(submsg) of the nested record of record id
ChildId(id) == id + MaxSqlMsgs

\* the registry after TypeMeta.make(submsg, root=rootmsg) at time now
MakeNested(reg, id, root, now) ==
    Sweep(IF id \in DOMAIN reg.cache THEN reg
          ELSE [reg EXCEPT !.cache = (id :> NoTopic) @@ @,
                           !.children = (root :> ((IF root \in DOMAIN @ THEN @[root] ELSE {})
                                                     \cup {id})) @@ @,
                           !.timings = (id :> now) @@ @], now)

\* TypeMeta.discard that forgets the record and leaves its nested records
TypeMetaDiscard_rootOnly(reg, id, now) ==
    Sweep([reg EXCEPT !.cache = Without(@, {id}),
                      !.timings = Without(@, {id}),
                      !.children = Without(@, {id})], now)

\* the registry after TypeMeta.discard(msg) at time now
TypeMetaDiscard(reg, id, now) ==
    LET kids == IF id \in DOMAIN reg.children THEN reg.children[id] ELSE {}
    IN  Sweep([reg EXCEPT !.cache = Without(@, {id} \cup kids),
                          !.timings = Without(@, {id} \cup kids),
                          !.children = Without(@, {id})], now)

\* _prune_data: `while len(dct[topickey]) > WINDOW`, each record popped from
\* self._messages given to TypeMeta.discard
RECURSIVE PruneMeta(_, _, _)
PruneMeta(w, reg, now) ==
    IF Len(w) > Max(args.BEFORE, args.AFTER) + 1
        THEN PruneMeta(Tail(w), TypeMetaDiscard(reg, Head(w), now), now)
        ELSE [window |-> w, registry |-> reg]

\* the ids Searcher._messages holds for topic
HeldOf(topic) == IF topic \in DOMAIN metaWindow THEN metaWindow[topic] ELSE <<>>

InitMeta ==
    /\ InitSearch([BEFORE : 0..1, AFTER : {0}, MAX_MATCHES : {0}, MAX_TOPIC_MATCHES : {0},
                   MAX_TOPICS : {0}, NTH_MATCH : {0}], LiveTopics)
    /\ CondIdle /\ MatchIdle /\ AuxIdle

\* one iteration of Searcher.search as the registry sees it: the record is
\* registered, a sink that emits it may register its nested record under it,
\* and _prune_data discards what leaves the window
MetaRead(topic, nest) ==
    /\ Len(sqlMsgs) < MaxSqlMsgs
    /\ \E id \in {Len(sqlMsgs) + 1} :
       \E reg1 \in {Make(registry, id, topic, clock)} :
       \E reg2 \in {IF nest THEN MakeNested(reg1, ChildId(id), id, clock) ELSE reg1} :
       \E pr \in {PruneMeta(Append(HeldOf(topic), id), reg2, clock)} :
          /\ sqlMsgs' = Append(sqlMsgs, [topic |-> topic, nested |-> nest])
          /\ metaWindow' = (topic :> pr.window) @@ metaWindow
          /\ registry' = pr.registry
    /\ UNCHANGED <<clock, sqlSink, sqlEmitted>>
    /\ SqlFrame

NextMeta ==
    \/ Tick
    \/ \E topic \in SqlTopicNames : \E nest \in BOOLEAN : MetaRead(topic, nest)

\* a search whose records and nested records are registered in TypeMeta
SpecMeta == InitMeta /\ [][NextMeta]_vars

\* C11: for a channel with n >= 1 registered records the name's handle has
\* length n and is truthy, index i >= 0 (i < n) reads the (i+1)-th earliest
\* record, index -k (k <= n) the k-th most recent one, and attribute access
\* reads the latest record.
C11_TopicProxy ==
    \A j \in DOMAIN evtrace :
        LET e == conditions[evtrace[j].cond]
            x == e.l
            key == KeyOf(x.tok, evtrace[j].remap)
            h == IF key \in CondTopics THEN history[key] ELSE <<>>
            n == Len(h)
            out == evtrace[j].outcome
        IN  e.op = "only" /\ n >= 1 =>
                CASE x.kind = "bool" -> out = "True"
                  [] x.kind = "len"  -> out = Truthy(n > x.idx)
                  [] x.kind = "attr" -> out = Truthy(h[n] > 0)
                  [] x.kind = "item" /\ x.idx >= 0 /\ x.idx < n -> out = Truthy(h[x.idx + 1] > 0)
                  [] x.kind = "item" /\ x.idx < 0 /\ 0 - x.idx <= n
                        -> out = Truthy(h[n + x.idx + 1] > 0)
                  [] OTHER -> TRUE

\* the handle <topic t> of channel t as conditions see it now
ProxyNow(t) == GetTopicInstance(CondNow, t, EmptyMap)

\* channel t has had this many records pushed through the search loop
Pushed(t) == Cnt(counts, t, "None")

\* C12: once max(BEFORE, AFTER) + 2 records went through a channel, the
\* oldest of them is neither in the channel's window nor retrievable by an
\* index from the channel's handle.
C12_OldestEvicted ==
    \A t \in DOMAIN topics :
        gate # "raised" /\ Pushed(t) >= Max(args.BEFORE, args.AFTER) + 2 =>
            /\ \A i \in DOMAIN Win(messages, t) : Win(messages, t)[i][2] # 1
            /\ ProxyNow(t).kind = "Topic" =>
                   /\ ProxyNow(t).firsts = <<>>
                   /\ Len(ProxyNow(t).lasts) < Pushed(t)

\* C13: after every processed record each channel's window (messages, stamps
\* and statuses alike) holds at most max(BEFORE, AFTER) + 1 entries, and each
\* channel's condition history holds at most its first-limit of earliest and
\* its last-limit of latest records, however many records were read.
C13_BoundedMemory ==
    /\ gate # "raised" =>
           \A t \in DOMAIN topics :
               /\ Len(Win(messages, t)) <= Max(args.BEFORE, args.AFTER) + 1
               /\ Len(Win(stamps, t)) <= Max(args.BEFORE, args.AFTER) + 1
               /\ Len(Win(statuses, t)) <= Max(args.BEFORE, args.AFTER) + 1
    /\ \A t \in CondTopics :
           /\ Len(FirstOf(firstmsgs, t)) <= LimitsOf(t)[1]
           /\ Len(LastOf(lastmsgs, t)) <= LimitsOf(t)[2]

\* a channel has had more records than its window and its history hold, and
\* both are full
C13_Witness ==
    /\ gate # "raised"
    /\ Pushed("speed") > Max(args.BEFORE, args.AFTER) + 1
    /\ Len(Win(messages, "speed")) = Max(args.BEFORE, args.AFTER) + 1
    /\ Len(history["speed"]) > LimitsOf("speed")[2]
    /\ LimitsOf("speed")[2] > 1
    /\ Len(LastOf(lastmsgs, "speed")) = LimitsOf("speed")[2]

\* C14: the status of a window entry only moves from pending (None) to
\* matched (True) or to context (False): an entry that is True or False keeps
\* that status for as long as it is in the window.
C14_StatusMonotonic ==
    [][\A k \in DOMAIN statuses :
          \A i \in DOMAIN statuses[k] :
              \A j \in DOMAIN Win(statuses', k) :
                  /\ statuses[k][i][2] # "None"
                  /\ statuses'[k][j][1] = statuses[k][i][1]
                  => statuses'[k][j][2] = statuses[k][i][2]]_vars

\* a window that holds a settled match and a settled context record from
\* earlier iterations, next to a record that is still pending
C14_Witness ==
    \E k \in DOMAIN statuses :
        \E h, i, j \in DOMAIN statuses[k] :
            /\ h < Len(statuses[k]) /\ i < Len(statuses[k])
            /\ statuses[k][h][2] = "True"
            /\ statuses[k][i][2] = "False"
            /\ statuses[k][j][2] = "None"

\* records registered in the current batch, over all channels
RECURSIVE SumNone(_, _)
SumNone(cs, S) ==
    IF S = {} THEN 0
    ELSE LET k == CHOOSE x \in S : TRUE
         IN  cs[k]["None"] + SumNone(cs, S \ {k})

\* positions in channel k of the records of this batch that counted as matches
MatchedPos(k) == {i \in DOMAIN matchlog[k] : matchlog[k][i].matched}

\* C15: when source.get_batch() changes between two records, search clears
\* windows, stamps, statuses, counts and the TypeMeta registry before it
\* registers the first record of the new batch and restarts the message ids;
\* no match status, owed context or quota count of the previous batch shows
\* in the new batch.
C15_BatchIsolation ==
    batch = srcBatch =>
        /\ counter = SumNone(counts, DOMAIN counts)
        /\ \A e \in typemeta : e[1] = srcBatch
        /\ \A k \in DOMAIN counts :
               /\ k \in DOMAIN topics /\ counts[k]["None"] <= topics[k]
               /\ counts[k]["None"] = Len(matchlog[k])
               /\ counts[k]["True"] = Cardinality(MatchedPos(k))
               /\ \A i \in DOMAIN Win(messages, k) :
                      /\ messages[k][i][1] \in 1..counter
                      /\ messages[k][i][2] \in 1..counts[k]["None"]
                      /\ stamps[k][i] = messages[k][i]
                      /\ statuses[k][i][1] = messages[k][i][1]
                      /\ statuses[k][i][2] = "True" => messages[k][i][2] \in MatchedPos(k)
               /\ Len(Win(stamps, k)) = Len(Win(messages, k))
               /\ Len(Win(statuses, k)) = Len(Win(messages, k))
        /\ \A j \in DOMAIN emitted :
               LET c == emitted[j]
               IN  /\ c.topic \in DOMAIN counts
                   /\ c.msg \in 1..counts[c.topic]["None"]
                   /\ IF c.match THEN c.msg \in MatchedPos(c.topic)
                      ELSE \E m \in MatchedPos(c.topic) :
                               \/ m > c.msg /\ m - c.msg <= args.BEFORE
                               \/ m < c.msg /\ c.msg - m <= args.AFTER

\* a later bag is being searched after a bag that had matches, and a record
\* of it was emitted as a match with context
C15_Witness ==
    /\ srcBatch > 0 /\ batch = srcBatch
    /\ total_matched > 0
    /\ \E i, j \in DOMAIN emitted : emitted[i].match /\ ~emitted[j].match

\* the visible leaf values of a record, as <<field path, text>>: what the
\* walk of get_match renders to text under the select and noselect rules
RECURSIVE Leaves(_, _, _)
Leaves(a, obj, top) ==
    IF obj.kind = "msg"
    THEN UNION {LET v == obj.items[k]
                    path == Append(top, k)
                IN  IF v.kind = "msg" THEN Leaves(a, v, path)
                    ELSE IF v.kind = "list" /\ v.items # <<>>
                         THEN UNION {Leaves(a, v.items[j], path) : j \in DOMAIN v.items}
                    ELSE {<<path, Str(v)>>} :
                k \in FilterFields(DOMAIN obj.items, top,
                                   a.SELECT_FIELDS, a.NOSELECT_FIELDS)}
    ELSE {<<top, Str(obj)>>}

\* a content rule matches in some visible field that its path scope accepts
RuleMatches(a, rule, msg) ==
    \E leaf \in Leaves(a, msg, <<>>) :
        PathAccepts(rule.path, leaf[1]) /\ Finds(rule.rgx, leaf[2])

\* C16: with INVERT off get_match returns a match iff every configured
\* content pattern matched in at least one visible field that its field-path
\* scope accepts; a record in which only some patterns match is no match.
C16_AllPatterns ==
    calls > 0 /\ ~margs.INVERT /\ margs.PATTERNS # <<>> =>
        (returned # "None" <=>
            \A i \in DOMAIN margs.PATTERNS : RuleMatches(margs, margs.PATTERNS[i], given))

\* C17: for the same record and content rules the verdict with INVERT is the
\* negation of the verdict without it: exactly one of the two modes selects
\* the record.
C17_InvertNegates ==
    calls > 0 =>
        LET other == [margs EXCEPT !.INVERT = ~@]
        IN  (returned # "None")
                # (GetMatchResult(other, Prepare(other), given).returned # "None")

\* C18: with INVERT on and no content pattern matching anywhere in the
\* record, get_match returns the record with every field value unchanged and
\* without match markers.
C18_InvertUnmarked ==
    /\ calls > 0 /\ margs.INVERT
    /\ \A i \in DOMAIN ParsePatterns(margs.PATTERNS) :
           ~RuleMatches(margs, ParsePatterns(margs.PATTERNS)[i], given)
    => result = given

\* C19: get_match never modifies the record it is given: after any call the
\* record has the field values it had before, and markers are only in the
\* copy returned.
C19_RecordUntouched ==
    calls > 0 => original = given

\* a call returned a copy that carries match markers
C19_Witness ==
    /\ calls > 0 /\ returned = "copy" /\ walked
    /\ result # given /\ original = given

\* passthrough as the configuration decides it
PassthroughConfig ==
    /\ ~margs.highlighting
    /\ margs.SELECT_FIELDS = {} /\ margs.NOSELECT_FIELDS = {}
    /\ ~margs.INVERT
    /\ \A i \in DOMAIN ParsePatterns(margs.PATTERNS) : ParsePatterns(margs.PATTERNS)[i] = AnyMatch

\* C20 as stated: passthrough is on exactly when the sink does not highlight,
\* no field is selected or deselected, INVERT is off and the only content rule
\* is the match-all rule; in passthrough get_match returns the given record
\* itself, unmodified; in every other configuration the full matching walk
\* runs.
C20_PassthroughElseWalk ==
    /\ passthrough <=> PassthroughConfig
    /\ calls > 0 /\ passthrough => returned = "given" /\ result = given /\ original = given
    /\ calls > 0 /\ ~passthrough => walked

\* C20, amended: as above, but in every other configuration get_match never
\* returns the given record itself: it returns None from the brute prechecks
\* or the outcome of the full matching walk over a copy.
C20_Passthrough ==
    /\ passthrough <=> PassthroughConfig
    /\ calls > 0 /\ passthrough => returned = "given" /\ result = given /\ original = given
    /\ calls > 0 /\ ~passthrough =>
           /\ returned # "given"
           /\ walked \/ (returned = "None" /\ BrutePrechecks(margs) # {})

\* a record with fields went through get_match in passthrough
C20_Witness ==
    /\ calls > 0 /\ passthrough /\ PassthroughConfig
    /\ given.items # <<>> /\ returned = "given" /\ ~walked

\* C21: where brute prechecks are installed, get_match returns None from the
\* precheck only for a record for which the full walk returns None as well.
C21_PrecheckSound ==
    calls > 0 /\ ~passthrough /\ BrutePrechecks(margs) # {} /\ ~BruteOk(margs, given)
    => FullWalk(margs, given).returned = "None"

\* SELECT_FIELDS is set and no field of the record given matches a select rule
NoneSelected ==
    /\ margs.SELECT_FIELDS # {}
    /\ \A k \in DOMAIN given.items : <<k>> \notin margs.SELECT_FIELDS

\* C22 as stated: with SELECT_FIELDS set, no field of the record matching a
\* select rule and at least one content pattern configured, get_match
\* returns None.
C22_NoneSelectedIsNone ==
    calls > 0 /\ margs.PATTERNS # <<>> /\ NoneSelected => returned = "None"

\* C22, amended: the same with INVERT off; with INVERT on the record is an
\* inverted match, no pattern having matched, and a copy of it is returned.
C22_NoneSelected ==
    /\ calls > 0 /\ margs.PATTERNS # <<>> /\ NoneSelected /\ ~margs.INVERT
           => returned = "None"
    /\ calls > 0 /\ margs.PATTERNS # <<>> /\ NoneSelected /\ margs.INVERT
           => returned = "copy" /\ result = given

\* the walk ran over a record whose only field holds what the pattern looks
\* for, the field is not selected, and get_match returned None
C22_Witness ==
    /\ calls > 0 /\ NoneSelected /\ ~margs.INVERT /\ walked
    /\ margs.PATTERNS = <<Rule(<<>>, "x")>>
    /\ given = Msg(<<Scalar("x")>>)
    /\ returned = "None"

\* C23: calculate_definition_hash is deterministic and blind to comments: a
\* call with the same type name and a definition text that differs from the
\* first one at most in comments outside string constant declarations returns
\* the digest of the first call.
C23_HashIgnoresComments ==
    hcalls > 1 /\ hfresh /\ ~hstr => hdigest = hbase

\* the second call hashed a text with changed comments whose digest holds a
\* constant, a field and the digest of a subtype
C23_Witness ==
    /\ hcalls > 1 /\ hfresh /\ ~hstr /\ hdigest = hbase
    /\ \E i \in DOMAIN hdef : IndexOf(hdef[i], "#") > 0 /\ FieldRgx(hdef[i]).g3
    /\ \E i \in DOMAIN hdef : IndexOf(hdef[i], "#") > 0 /\ StartsWith(hdef[i], "Sub ")
    /\ \E i \in DOMAIN hdef : hdef[i] = "int32 y  # c=d"
    /\ hdigest # KeyError

\* C24: once close() has set the stop flag, from the consumer between two
\* records or from another thread while read() is blocked on the queue or
\* about to read it, read() does not raise and yields no further record.
C24_CloseStopsRead ==
    stopped => rpc # "raised" /\ ~late

\* C25: the subscription callbacks and the periodic topic refresh hand data to
\* the consumer through the queue only: they write no other attribute of the
\* source.
C25_QueueOnly ==
    \A w \in wrote : w[1] \in {"callback", "refresh"} => w[2] = "_queue"

\* the verdict `matched` of the record a step of search() has processed
StepMatched ==
    \E k \in DOMAIN matchlog' :
        /\ matchlog'[k] # <<>>
        /\ batch # srcBatch \/ Len(matchlog'[k]) = Len(matchlog[k]) + 1
        /\ matchlog'[k][Len(matchlog'[k])].matched

\* C26: search returns the number of matched records of all batches, each
\* counted once: the value it would return grows by one with every matched
\* record and by nothing else, also where a batch changes and the per-batch
\* state is cleared.
C26_TotalCountsOnce ==
    [][IF srcBatch' # srcBatch THEN ReturnValue' = ReturnValue
       ELSE ReturnValue' = ReturnValue + (IF StepMatched THEN 1 ELSE 0)]_vars

\* a later batch has matches of its own after those of the batch before it
\* were added to the total
C26_Witness ==
    /\ srcBatch > 0 /\ batch = srcBatch
    /\ total_matched > 0 /\ SumTrue(counts) > 0
    /\ ReturnValue = total_matched + SumTrue(counts)

\* the (typename, typehash) and (topic, typename, typehash) of the records
\* given to SqlSink.emit
EmittedTypeKeys == {sqlMsgs[i].type : i \in sqlEmitted}
EmittedTopicKeys == {<<sqlMsgs[i].topic, sqlMsgs[i].type[1], sqlMsgs[i].type[2]>> : i \in sqlEmitted}
EntityCount(entity) == Cardinality({j \in DOMAIN sqlSink.file : sqlSink.file[j] = entity})

\* C27: after any sequence of emitted records SqlSink keeps, and its file
\* holds, exactly one CREATE TABLE entity per distinct (type name, type hash)
\* and exactly one CREATE VIEW entity per distinct (topic, type name, type
\* hash) of the emitted records, and nothing else; close() ends normally.
C27_OneEntityPerKey ==
    /\ sqlSink.state # "raised"
    /\ sqlSink.state = "open" =>
          /\ sqlSink.types = EmittedTypeKeys
          /\ DOMAIN sqlSink.topics = EmittedTopicKeys
    /\ sqlSink.state \in {"open", "closed"} =>
          /\ \A k \in EmittedTypeKeys : EntityCount(<<"table", k[1], k[2]>>) = 1
          /\ \A k \in EmittedTopicKeys : EntityCount(<<"view", k[1], k[2], k[3]>>) = 1
          /\ Len(sqlSink.file) = Cardinality(EmittedTypeKeys) + Cardinality(EmittedTopicKeys)

\* a matched record of channel c is followed by fewer than AFTER later records
\* of the channel
AfterOwed(c) ==
    \E i \in DOMAIN matchlog[c] :
        matchlog[c][i].matched /\ Len(matchlog[c]) - i < args.AFTER

\* C28: search never signals early stop while some channel has a matched
\* record followed by fewer than AFTER later records of that channel, also
\* when the match is among the first AFTER records of the channel.
C28_NoStopWhileAfterOwed ==
    ~srcOpen => \A c \in DOMAIN matchlog : ~AfterOwed(c)

\* channel c may still have a match accepted under MAX_TOPICS
MayStillMatch(c) ==
    LET topics_matched == {x \in DOMAIN counts : counts[x]["True"] # 0}
    IN  \/ args.MAX_TOPICS = 0
        \/ c \in topics_matched
        \/ Cardinality(topics_matched) < args.MAX_TOPICS

\* every record of channel c was processed
AllProcessed(c) == topics[c] # NoCount /\ Cnt(counts, c, "None") >= topics[c]

\* C29: search signals early stop only when no remaining record of the batch
\* could still be accepted as a match: MAX_MATCHES is reached, or every
\* channel that may still match under MAX_TOPICS has reached
\* MAX_TOPIC_MATCHES or has had all of its records processed.
C29_StopOnlyWhenDone ==
    ~srcOpen =>
        \/ args.MAX_MATCHES # 0 /\ SumTrue(counts) >= args.MAX_MATCHES
        \/ \A c \in DOMAIN topics :
              MayStillMatch(c) =>
                  \/ args.MAX_TOPIC_MATCHES # 0
                     /\ Cnt(counts, c, "True") >= args.MAX_TOPIC_MATCHES
                  \/ AllProcessed(c)

\* the real channels the name of a `<topic x>` token resolves to
ResolvesTo(tok) == {c \in CondTopics : tok = c \/ (IsWildcard(tok) /\ WildcardMatch(tok, c))}

\* C30: for a condition term `<topic X>[-k]` or `<topic X>[i]`, X a literal
\* name or a wildcard, and every real channel X resolves to: once the channel
\* has k (or i+1) registered records, its handle holds the k latest (the i+1
\* earliest) of them, so the indexed access finds the record.
C30_IndexedHistoryKept ==
    \A n \in DOMAIN conditions : \A x \in ItemsOf(conditions[n]) :
        \A c \in ResolvesTo(x.tok) :
            LET h == history[c]
                p == ProxyNow(c)
            IN  IF x.idx < 0
                THEN Len(h) >= 0 - x.idx =>
                        /\ p.kind = "Topic" /\ Len(p.lasts) >= 0 - x.idx
                        /\ p.lasts[Len(p.lasts) + x.idx + 1] = h[Len(h) + x.idx + 1]
                ELSE Len(h) >= x.idx + 1 =>
                        /\ p.kind = "Topic" /\ Len(p.firsts) >= x.idx + 1
                        /\ p.firsts[x.idx + 1] = h[x.idx + 1]

\* channel c is referenced by a condition, by literal name or by wildcard
Referenced(c) ==
    \E n \in DOMAIN conditions : \E t \in TokensOf(conditions[n]) : c \in ResolvesTo(t)

\* C31: of the channels of a bag that a condition references, those the
\* user's filters exclude have every record registered into the condition
\* history and none yielded to the search (none matched, none emitted), and
\* those the filters select have every record yielded and searched.
C31_ConditionOnlyChannels ==
    \A c \in BagChannels :
        Referenced(c) =>
            IF c \notin selected
            THEN /\ Len(history[c]) = src_counts[c]
                 /\ matchlog[c] = <<>>
                 /\ \A j \in DOMAIN emitted : emitted[j].topic # c
            ELSE Len(matchlog[c]) = src_counts[c]

\* C32: when is_processable runs for a record of a channel a condition
\* references, the record is already registered: the gate is the conditions'
\* value over the history that holds the record, the channel's proxy has the
\* record as its latest entry and its length counts the record.
C32_RegisteredBeforeGate ==
    [][\A c \in CondTopics :
          (Referenced(c) /\ src_counts'[c] = src_counts[c] + 1 /\ gate' # "none") =>
              /\ history'[c] = Append(history[c], history'[c][Len(history'[c])])
              /\ LET r == ConditionIsProcessable(CondNow')
                 IN  /\ gate' = IF r.raised THEN "raised" ELSE Truthy(r.result)
                     /\ evtrace' = r.trace
              /\ LET p == ProxyNow(c)'
                 IN  /\ p.kind = "Topic"
                     /\ p.lasts # <<>>
                     /\ p.lasts[Len(p.lasts)] = history'[c][Len(history'[c])]
                     /\ p.count = Len(history'[c])]_vars

\* the first record read is of a referenced channel and passes the gate on
\* its own value
C32_Witness ==
    /\ CondReadCount = 1
    /\ gate = "True"
    /\ \E c \in CondTopics : Referenced(c) /\ history[c] = <<1>>
    /\ \E j \in DOMAIN evtrace : evtrace[j].outcome = "True"

\* C33: whenever TypeMeta.make or TypeMeta.discard has run at time t, no entry
\* registered earlier than t - LIFETIME is left in the registry, however long
\* ago the previous sweep ran.
C33_StaleEntriesSwept ==
    [][sqlMsgs' # sqlMsgs =>
          \A id \in DOMAIN registry'.timings :
              registry'.timings[id] >= clock - LIFETIME]_vars

\* ids of the records that have left the window of their channel
Pruned == {id \in DOMAIN sqlMsgs : \A t \in DOMAIN metaWindow :
              \A j \in DOMAIN metaWindow[t] : metaWindow[t][j] # id}

\* C34: in the step in which _prune_data drops a record from a window over
\* its bound, the registry entry of the record and the entries of the nested
\* records registered under it are removed.
C34_PruneDiscards ==
    [][\A id \in DOMAIN sqlMsgs :
          (id \notin Pruned /\ id \in Pruned') =>
              /\ id \notin DOMAIN registry'.cache
              /\ id \notin DOMAIN registry'.timings
              /\ id \notin DOMAIN registry'.children
              /\ (id \in DOMAIN registry.children =>
                     \A c \in registry.children[id] :
                         c \notin DOMAIN registry'.cache /\ c \notin DOMAIN registry'.timings)
              /\ (sqlMsgs[id].nested => ChildId(id) \notin DOMAIN registry'.cache)]_vars

\* a record with a nested record registered under it has left its window and
\* neither is in the registry, while records still held are
C34_Witness ==
    \E id \in Pruned :
        /\ sqlMsgs[id].nested
        /\ id \notin DOMAIN registry.cache
        /\ ChildId(id) \notin DOMAIN registry.cache
        /\ clock <= LIFETIME
        /\ \E other \in DOMAIN sqlMsgs \ Pruned : other \in DOMAIN registry.cache

\* C35: within a batch the k-th match (1-based) of a channel is emitted
\* exactly when (k - 1) mod NTH_MATCH = 0, NTH_MATCH unset counting as 1: the
\* first match of every channel is emitted, and with NTH_MATCH = 2 the
\* matches 1, 3, 5, .. are emitted and 2, 4, 6, .. are not.
C35_NthBoundary ==
    \A c \in Channels :
        LET N  == IF args.NTH_MATCH = 0 THEN 1 ELSE args.NTH_MATCH
            ms == MatchSeq(c)
        IN  \A k \in 1..Len(ms) : EmittedAsMatch(c, ms[k]) <=> (k - 1) % N = 0

\* with NTH_MATCH = 2 a channel has three matches: the first and the third
\* emitted, the second not
C35_Witness ==
    /\ args.NTH_MATCH = 2
    /\ \E c \in Channels :
          /\ Len(MatchSeq(c)) >= 3
          /\ EmittedAsMatch(c, MatchSeq(c)[1])
          /\ ~EmittedAsMatch(c, MatchSeq(c)[2])
          /\ EmittedAsMatch(c, MatchSeq(c)[3])

\* C36: the index given to sink.emit with a record, emitted as a match or as
\* before- or after-context, is the record's 1-based position among the
\* records of its channel in the batch.
C36_EmitIndexIsPosition ==
    \A j \in DOMAIN emitted : emitted[j].index = emitted[j].msg

\* C37: no record is given to sink.emit more than once, neither as a match
\* and as context nor as context of two matches.
C37_EmittedOnce ==
    \A i, j \in DOMAIN emitted :
        (emitted[i].topic = emitted[j].topic /\ emitted[i].msg = emitted[j].msg) => i = j

\* a record emitted as context lies after one emitted match and before the
\* next, within AFTER of the first and BEFORE of the second
C37_Witness ==
    /\ args.BEFORE >= 1 /\ args.AFTER >= 1
    /\ \E c \in Channels : \E p \in 1..MaxMsgs :
          /\ EmittedAsMatch(c, p) /\ EmittedAsMatch(c, p + 2)
          /\ \E i \in DOMAIN emitted :
                 emitted[i].topic = c /\ emitted[i].msg = p + 1 /\ ~emitted[i].match

\* C38: every record given to the sink as context lies at most BEFORE
\* positions before, or at most AFTER positions after, a record of the same
\* channel that was emitted as a match, also when NTH_MATCH suppresses matches.
C38_ContextAroundEmitted ==
    \A j \in DOMAIN emitted :
        ~emitted[j].match =>
            \E p \in 1..Len(matchlog[emitted[j].topic]) :
                /\ EmittedAsMatch(emitted[j].topic, p)
                /\ \/ p > emitted[j].msg /\ p - emitted[j].msg <= args.BEFORE
                   \/ p < emitted[j].msg /\ emitted[j].msg - p <= args.AFTER

\* C39: once TopicSource.close() has returned no subscription is registered,
\* and none is created afterwards, whatever the refresh thread was doing
\* while close() ran.
C39_NoSubscriptionAfterClose ==
    cpc = "closed" => subs = {}
====
